---------------------------- MODULE Spec2Model ----------------------------
(***************************************************************************)
(* Model of the CodeSonar hub client of the vscode-codesonar extension:    *)
(*   - getHubCapabilityInfo          (src/src/cs_hub_client.ts)            *)
(*   - HTTPClientConnection.request  (http_client, src/unnamed/part_004)   *)
(*   - CSHubClient sign-in / fetch   (src/src/cs_hub_client.ts)            *)
(*   - downloadSarifResults          (src/unnamed/part_008)                *)
(*   - the cookie jar of a connection (src/unnamed/part_004)               *)
(*   - the functions of one call: the socket timeout, record IDs, hub      *)
(*     errors, hub addresses, search literals, the sign-in form, the body  *)
(*     of a request, the JSON list requests, the sign-in branch, the       *)
(*     redirects of a request, the project search request                  *)
(* Each component has its own specifications (SpecCap; SpecRequest and     *)
(* SpecRequestPair; SpecSignIn, SpecSession and SpecClient; SpecDownload   *)
(* and SpecDownloadFair; SpecCookies; SpecTimeout, SpecRecordId,           *)
(* SpecHubError, SpecAddress, SpecAddressInput, SpecLiteral,               *)
(* SpecLegacySignIn, SpecBody, SpecFetchJson, SpecSignInBranch,            *)
(* SpecRedirect, SpecRedirectFair and SpecProjectSearch over args and      *)
(* run); the variables of the other components stay at their idle value.   *)
(***************************************************************************)
EXTENDS Integers, Sequences, FiniteSets, TLC

VARIABLES
    compatibilityInfo,  \* SpecCap: argument of getHubCapabilityInfo
    capabilityInfo,     \* SpecCap: {its result}, {} before the call
    conn,               \* SpecRequest: the HTTPClientConnection object
    reqs,               \* SpecRequest: the calls of request(), by id
    wire,               \* SpecRequest: HTTP(S) requests handed to node's http/https
    signal,             \* the cancellation handle given to the calls (triggered or not)
    client,             \* SpecClient: the CSHubClient object
    ops,                \* SpecClient: the calls of signIn()/fetchProjectInfo(), by id
    checkVersionCount,  \* SpecClient: check_version requests sent so far
    download,           \* SpecDownload: the call of downloadSarifResults
    httpCookies,        \* SpecCookies: the cookie jar of a connection
    nowMilliseconds,    \* SpecCookies: the clock, Date.now()
    setCookieCount,     \* SpecCookies: Set-Cookie headers processed so far
    cookieHeader,       \* SpecCookies: the Cookie header of the last request
    args,               \* the arguments and options a function is applied to
    run                 \* its execution: position, locals and result

vars == <<compatibilityInfo, capabilityInfo, conn, reqs, wire, signal,
          client, ops, checkVersionCount, download,
          httpCookies, nowMilliseconds, setCookieCount, cookieHeader,
          args, run>>

NONE == "none"
NULL == "null"
UNDEFINED == "undefined"

(***************************************************************************)
(* HTTP status codes and error codes used by the client.                   *)
(***************************************************************************)
HTTP_OK == 200
HTTP_MOVED_PERMANENTLY == 301
HTTP_FORBIDDEN == 403
HTTP_NOT_FOUND == 404

HTTP_PROTOCOL == "http"
HTTPS_PROTOCOL == "https"

ECONNREFUSED_CODE == "ECONNREFUSED"
ECONNRESET_CODE == "ECONNRESET"
EPROTO_CODE == "EPROTO"
DEPTH_ZERO_SELF_SIGNED_CERT_CODE == "DEPTH_ZERO_SELF_SIGNED_CERT"

(***************************************************************************)
(* getHubCapabilityInfo                                                    *)
(***************************************************************************)
\* hubVersionNumber above this value means a hub of the 7.1 generation.
LegacyHubVersionNumber == 700

HubVersionNumbers == {0, 699, 700, 701, 710}

\* The check_version payload; `openapi` is capabilities.openapi ("undefined"
\* when the capabilities object or the flag is absent).
CompatibilityInfos ==
    [ kind : {"info"},
      hubVersionNumber : HubVersionNumbers,
      clientOK : {"true", "false", NULL, UNDEFINED},
      openapi : {"true", "false", UNDEFINED} ]

\* null and undefined in place of a payload.
NoCompatibilityInfo(k) ==
    [ kind |-> k, hubVersionNumber |-> 0, clientOK |-> UNDEFINED, openapi |-> UNDEFINED ]
NullInfo == NoCompatibilityInfo(NULL)
UndefinedInfo == NoCompatibilityInfo(UNDEFINED)

getHubCapabilityInfoOffByOne(ci) ==
    IF ci.kind \in {NULL, UNDEFINED}
    THEN [ hubVersionNumber |-> 0, openAPI |-> FALSE,
           resultLimiting |-> FALSE, sarifSearch |-> FALSE ]
    ELSE [ hubVersionNumber |-> ci.hubVersionNumber,
           openAPI |-> (ci.openapi = "true"),
           resultLimiting |-> (ci.hubVersionNumber >= LegacyHubVersionNumber),
           sarifSearch |-> (ci.hubVersionNumber >= LegacyHubVersionNumber) ]

getHubCapabilityInfo(ci) ==
    IF ci.kind \in {NULL, UNDEFINED}
    THEN [ hubVersionNumber |-> 0, openAPI |-> FALSE,
           resultLimiting |-> FALSE, sarifSearch |-> FALSE ]
    ELSE [ hubVersionNumber |-> ci.hubVersionNumber,
           openAPI |-> (ci.openapi = "true"),
           resultLimiting |-> (ci.hubVersionNumber > LegacyHubVersionNumber),
           sarifSearch |-> (ci.hubVersionNumber > LegacyHubVersionNumber) ]

CapIdle == compatibilityInfo = UndefinedInfo /\ capabilityInfo = {}
CapVars == <<compatibilityInfo, capabilityInfo>>
ClientIdle == client = NONE /\ ops = NONE /\ checkVersionCount = 0
ClientVars == <<client, ops, checkVersionCount>>
DownloadIdle == download = NONE
DownloadVars == <<download>>
CookieIdle ==
    /\ httpCookies = {}
    /\ nowMilliseconds = 0
    /\ setCookieCount = 0
    /\ cookieHeader = NONE
CookieVars == <<httpCookies, nowMilliseconds, setCookieCount, cookieHeader>>
CallIdle == args = NONE /\ run = NONE
CallVars == <<args, run>>

CapCall ==
    /\ capabilityInfo = {}
    /\ capabilityInfo' = {getHubCapabilityInfo(compatibilityInfo)}
    /\ UNCHANGED <<compatibilityInfo, conn, reqs, wire, signal, ClientVars, DownloadVars, CookieVars, CallVars>>

\* The caller drops the result and asks again with another payload.
CapNext ==
    /\ capabilityInfo # {}
    /\ compatibilityInfo' \in CompatibilityInfos \cup {NullInfo, UndefinedInfo}
    /\ capabilityInfo' = {}
    /\ UNCHANGED <<conn, reqs, wire, signal, ClientVars, DownloadVars, CookieVars, CallVars>>


(***************************************************************************)
(* URLs.  A URL object is a record; `port` is the URL's port string, ""    *)
(* when the URL has none.  new URL() drops a port that is the scheme's     *)
(* default, and URL.origin is scheme://host[:port] of the result.  Strings *)
(* of that shape are modelled as <<scheme, host, port>>.                   *)
(***************************************************************************)
Hosts == {"hub", "other"}
PortStrings == {"", "443", "7340"}

DefaultPortString(protocol) == IF protocol = HTTPS_PROTOCOL THEN "443" ELSE "80"

NewURL(protocol, hostname, port, path) ==
    [ protocol |-> protocol, hostname |-> hostname,
      port |-> IF port = DefaultPortString(protocol) THEN "" ELSE port,
      path |-> path ]

Origin(url) == <<url.protocol, url.hostname, url.port>>

\* A resource argument: a path relative to the server, or an absolute URL.
NoURL == [protocol |-> NONE, hostname |-> NONE, port |-> NONE, path |-> NONE]
Resources ==
    { [kind |-> "path", path |-> "/x", url |-> NoURL] }
    \cup { [kind |-> "url", path |-> NONE, url |-> NewURL(p, h, q, "/x")] :
             p \in {HTTP_PROTOCOL, HTTPS_PROTOCOL}, h \in Hosts, q \in {"", "7340"} }

(***************************************************************************)
(* HTTPClientConnection                                                    *)
(***************************************************************************)
\* constructor: protocol, hostname, the port option as a string ("" when the
\* option is undefined), empty cookie jar, the key passphrase callback.
\* passphraseCalls counts the calls of that callback.
HTTPClientConnection(protocol, hostname, portString, keypasswd) ==
    [ protocol |-> protocol,
      hostname |-> hostname,
      portString |-> portString,
      httpCookies |-> {},
      bearerToken |-> UNDEFINED,
      requestPassphrase |-> keypasswd,
      passphrase |-> UNDEFINED,
      passphraseCalls |-> 0 ]

BaseUrlString(c) == <<c.protocol, c.hostname, c.portString>>

\* The origin the connection really talks to.
ConnOrigin(c) == Origin(NewURL(c.protocol, c.hostname, c.portString, "/"))

resourceURL(c, resource) ==
    IF resource.kind = "path"
    THEN NewURL(c.protocol, c.hostname, c.portString, resource.path)
    ELSE resource.url

\* url.protocol keeps its trailing ":" and never equals HTTPS_PROTOCOL, so a
\* URL without a port gets HTTP_DEFAULT_PORT.
urlToHttpOptions(url) ==
    [ hostname |-> url.hostname,
      path |-> url.path,
      port |-> IF url.port # "" THEN url.port ELSE "80" ]

\* Headers of an outgoing request: the caller's headers, the jar's cookies,
\* content-length when a body is given.
RequestHeaders(c, authorization, hasData) ==
    [ authorization |-> authorization,
      cookie |-> c.httpCookies,
      contentLength |-> hasData ]

OriginMismatch(c, url) == Origin(url) # BaseUrlString(c)

clearCookiesKeep(c) == c

clearCookies(c) == [c EXCEPT !.httpCookies = {}]

(***************************************************************************)
(* HTTPClientConnection.request, one record per call.                      *)
(*   pc: idle -> passphrase -> flight -> closed                            *)
(*   promise, status, error: the promise request() returned; it settles    *)
(*   once, resolved with a response status or rejected with an error.      *)
(*   hops: recursive calls made for redirects; sends, responses: request   *)
(*   objects created and responses received; lastStatus, lastLocation: the *)
(*   status and the Location ("absent", "same", "cross") of the last one.  *)
(***************************************************************************)
MaxReqs == 2
MaxRedirects == 1
ReqIds == 1..MaxReqs

IdleReq ==
    [ pc |-> "idle", url |-> NoURL, hasSignal |-> FALSE, hasData |-> FALSE,
      cookie |-> {}, askPassphrase |-> FALSE, passphraseValue |-> UNDEFINED,
      promise |-> NONE, status |-> 0, error |-> NONE,
      registered |-> FALSE, cancelledWhilePending |-> FALSE, hops |-> 0,
      sends |-> 0, responses |-> 0, lastStatus |-> 0, lastLocation |-> NONE ]

\* resolve(response) / reject(error) of a promise that may already be settled.
Resolve(q, status) ==
    IF q.promise = "pending"
    THEN [q EXCEPT !.promise = "resolved", !.status = status] ELSE q

Reject(q, error) ==
    IF q.promise = "pending"
    THEN [q EXCEPT !.promise = "rejected", !.error = error] ELSE q

\* The request object emitted 'close': the cancellation callback is unregistered.
Closed(q) == [q EXCEPT !.pc = "closed", !.registered = FALSE]

ReqIdle == conn = NONE /\ reqs = NONE /\ wire = {}
ReqVars == <<conn, reqs, wire>>

\* The end of request(): this._requestPassphrase() is called when it is
\* defined.
requestPassphrase(c) ==
    IF c.requestPassphrase
    THEN [c EXCEPT !.passphraseCalls = c.passphraseCalls + 1] ELSE c

\* request(): the synchronous part, up to passphrasePromise.then(...).  The
\* origin check rejects the promise and the function goes on.
ReqCall(r, resource, hasSignal, hasData) ==
    /\ reqs[r].pc = "idle"
    /\ LET url == resourceURL(conn, resource)
           q == [ IdleReq EXCEPT
                    !.pc = "passphrase", !.url = url,
                    !.hasSignal = hasSignal, !.hasData = hasData,
                    !.cookie = RequestHeaders(conn, NONE, hasData).cookie,
                    !.askPassphrase = conn.requestPassphrase,
                    !.passphraseValue = conn.passphrase,
                    !.promise = "pending" ]
       IN reqs' = [reqs EXCEPT ![r] =
                     IF OriginMismatch(conn, url) THEN Reject(q, "origin-mismatch") ELSE q]
    /\ conn' = requestPassphrase(conn)
    /\ UNCHANGED <<wire, signal, CapVars, ClientVars, DownloadVars, CookieVars, CallVars>>

\* The continuation of an already resolved promise runs before any event of
\* the event loop (a response, an error, a trigger of the handle).
MicrotaskPending ==
    \E r \in ReqIds : reqs[r].pc = "passphrase" /\ ~reqs[r].askPassphrase

\* The passphrase promise rejects (the user dismissed the prompt).
ReqPassphraseRejected(r) ==
    /\ ~MicrotaskPending
    /\ reqs[r].pc = "passphrase"
    /\ reqs[r].askPassphrase
    /\ reqs' = [reqs EXCEPT ![r] = Closed(Reject(@, "passphrase-error"))]
    /\ UNCHANGED <<conn, wire, signal, CapVars, ClientVars, DownloadVars, CookieVars, CallVars>>

\* passphraseCallback and requestCallback: cache the passphrase, create the
\* request object for the target URL, register the cancellation callback,
\* write the body and end the request.
ReqSend(r) ==
    /\ reqs[r].pc = "passphrase"
    /\ (reqs[r].askPassphrase => ~MicrotaskPending)
    /\ LET q == reqs[r]
           passphrase == IF q.askPassphrase THEN "secret" ELSE q.passphraseValue
       IN /\ conn' = IF conn.requestPassphrase /\ passphrase # UNDEFINED
                     THEN [conn EXCEPT !.passphrase = passphrase,
                                       !.requestPassphrase = FALSE]
                     ELSE conn
          /\ IF q.url.protocol # conn.protocol
             THEN \* http.request / https.request refuse the other scheme
                  /\ reqs' = [reqs EXCEPT ![r] = Closed(Reject(q, "ERR_INVALID_PROTOCOL"))]
                  /\ wire' = wire
             ELSE /\ reqs' = [reqs EXCEPT ![r] =
                        [q EXCEPT !.pc = "flight", !.registered = q.hasSignal,
                                  !.sends = q.sends + 1]]
                  /\ wire' = wire \cup
                        {[ url |-> q.url, port |-> urlToHttpOptions(q.url).port,
                           headers |-> [RequestHeaders(conn, NONE, q.hasData)
                                           EXCEPT !.cookie = q.cookie] ]}
    /\ UNCHANGED <<signal, CapVars, ClientVars, DownloadVars, CookieVars, CallVars>>

\* responseCallback.  location: "absent", "same" (a path of the server the
\* connection talks to) or "cross" (a URL of another server).  closed: whether the first request object has
\* emitted 'close' by the time the redirected request is set up.
ReqResponse(r, status, location, setCookie, closed) ==
    /\ ~MicrotaskPending
    /\ reqs[r].pc = "flight"
    /\ (location # "absent" => status = HTTP_MOVED_PERMANENTLY)
    /\ (closed => status = HTTP_MOVED_PERMANENTLY /\ location = "same")
    /\ LET q == [reqs[r] EXCEPT !.responses = @ + 1, !.lastStatus = status,
                                !.lastLocation = location]
           conn2 == [conn EXCEPT !.httpCookies = @ \cup setCookie]
           target == IF location = "same"
                     THEN resourceURL(conn, [kind |-> "path", path |-> "/x"])
                     ELSE NewURL(conn.protocol, "other", "", "/x")
       IN /\ conn' = IF status = HTTP_MOVED_PERMANENTLY /\ location # "absent"
                           /\ ~OriginMismatch(conn, target)
                     THEN requestPassphrase(conn2) ELSE conn2
          /\ IF status # HTTP_MOVED_PERMANENTLY
             THEN reqs' = [reqs EXCEPT ![r] = Closed(Resolve(q, status))]
             ELSE IF location = "absent"
             THEN reqs' = [reqs EXCEPT ![r] = Closed(Reject(q, "missing-location"))]
             ELSE IF OriginMismatch(conn, target)
             THEN reqs' = [reqs EXCEPT ![r] = Closed(Resolve(q, status))]
             ELSE /\ q.hops < MaxRedirects
                  /\ reqs' = [reqs EXCEPT ![r] =
                        [q EXCEPT !.pc = "passphrase", !.url = target,
                                  !.cookie = RequestHeaders(conn2, NONE, q.hasData).cookie,
                                  !.askPassphrase = conn2.requestPassphrase,
                                  !.passphraseValue = conn2.passphrase,
                                  !.registered = (q.registered /\ ~closed),
                                  !.hops = q.hops + 1]]
    /\ UNCHANGED <<wire, signal, CapVars, ClientVars, DownloadVars, CookieVars, CallVars>>

\* requestObject 'error' (a transport error), or 'timeout' and the destroy
\* with the timeout error.
ReqError(r, code) ==
    /\ ~MicrotaskPending
    /\ reqs[r].pc = "flight"
    /\ reqs' = [reqs EXCEPT ![r] = Closed(Reject(@, code))]
    /\ UNCHANGED <<conn, wire, signal, CapVars, ClientVars, DownloadVars, CookieVars, CallVars>>

\* The cancellation handle is triggered: every registered callback destroys
\* its request object with createCancellationError().
Cancel ==
    /\ ~MicrotaskPending
    /\ ~signal
    /\ signal' = TRUE
    /\ reqs' = [r \in ReqIds |->
                  LET q == reqs[r]
                      q2 == IF q.hasSignal /\ q.promise = "pending"
                            THEN [q EXCEPT !.cancelledWhilePending = TRUE] ELSE q
                  IN IF q.registered THEN Closed(Reject(q2, "cancelled")) ELSE q2]
    /\ UNCHANGED <<conn, wire, CapVars, ClientVars, DownloadVars, CookieVars, CallVars>>

\* A callback registered on a handle that is already triggered is called
\* from a timer of the token (vscode CancellationToken).
CancelReplay(r) ==
    /\ ~MicrotaskPending
    /\ signal
    /\ reqs[r].pc = "flight"
    /\ reqs[r].registered
    /\ reqs' = [reqs EXCEPT ![r] = Closed(Reject(@, "cancelled"))]
    /\ UNCHANGED <<conn, wire, signal, CapVars, ClientVars, DownloadVars, CookieVars, CallVars>>

Statuses == {HTTP_OK, HTTP_MOVED_PERMANENTLY, HTTP_FORBIDDEN, HTTP_NOT_FOUND}
TransportErrors == {ECONNRESET_CODE, "timeout"}
CookieNames == {"sid"}

InitRequest ==
    /\ CapIdle
    /\ conn \in { HTTPClientConnection(p, "hub", q, k) :
                    p \in {HTTP_PROTOCOL, HTTPS_PROTOCOL}, q \in PortStrings,
                    k \in BOOLEAN }
    /\ reqs = [r \in ReqIds |-> IdleReq]
    /\ wire = {}
    /\ signal = FALSE
    /\ ClientIdle
    /\ DownloadIdle
    /\ CookieIdle
    /\ CallIdle

\* The steps of call r of request(), for a resource among resources, with
\* or without a body, answered with cookies among cookieNames.
ReqOp(r, resources, withData, cookieNames) ==
    \/ \E res \in resources, s \in BOOLEAN, d \in withData : ReqCall(r, res, s, d)
    \/ ReqPassphraseRejected(r)
    \/ ReqSend(r)
    \/ \E st \in Statuses, loc \in {"absent", "same", "cross"},
          ck \in SUBSET cookieNames, cl \in BOOLEAN :
          ReqResponse(r, st, loc, ck, cl)
    \/ \E code \in TransportErrors : ReqError(r, code)
    \/ CancelReplay(r)

\* SpecRequest: one call of request() on every connection, every resource.
NextRequest == ReqOp(1, Resources, BOOLEAN, CookieNames) \/ Cancel

SpecRequest == InitRequest /\ [][NextRequest]_vars

\* SpecRequestPair: MaxReqs calls of request() for a path of the server on
\* one HTTPS connection, started in any order and possibly before the
\* earlier ones have finished.
InitRequestPair ==
    /\ InitRequest
    /\ conn.protocol = HTTPS_PROTOCOL /\ conn.portString = "7340"

NextRequestPair ==
    \/ \E r \in ReqIds :
          ReqOp(r, {res \in Resources : res.kind = "path"}, {FALSE}, {})
    \/ Cancel

SpecRequestPair == InitRequestPair /\ [][NextRequestPair]_vars

(***************************************************************************)
(* SpecCap: getHubCapabilityInfo applied to every payload.                 *)
(***************************************************************************)
InitCap ==
    /\ compatibilityInfo \in CompatibilityInfos \cup {NullInfo, UndefinedInfo}
    /\ capabilityInfo = {}
    /\ ReqIdle
    /\ signal = FALSE
    /\ ClientIdle
    /\ DownloadIdle
    /\ CookieIdle
    /\ CallIdle

NextCap == CapCall \/ CapNext

SpecCap == InitCap /\ [][NextCap]_vars

(***************************************************************************)
(* CSHubClient (src/src/cs_hub_client.ts).                                 *)
(*                                                                         *)
(* client: the object's fields                                             *)
(*   options                      the connection options                   *)
(*   httpConn                     id of this.httpConn, 0 when undefined    *)
(*   conns                        the HTTPClientConnection objects created *)
(*   probeCount                   HEAD probes of / sent so far             *)
(*   hubVersionCompatibilityInfo  the cached check_version result          *)
(* ops: one record per call of signIn() or fetchProjectInfo(); pc is the   *)
(* await the call is suspended at.  A call of HTTPClientConnection.request *)
(* is one step here: the request is handed over when request() is called   *)
(* and its promise settles with the final response or error (SpecRequest   *)
(* has the steps in between).                                              *)
(***************************************************************************)
MaxOps == 2
OpIds == 1..MaxOps
ConnIds == 1..MaxOps

HubHostname == "hub"
HubPortString == "7340"

\* The options of the client.  protocol is hubAddress.protocol; hubkey is
\* "undefined", "plain" or "protected" (keyIsProtected after load()).
ClientOptionsOf(protocol, cafile, auth, hubuser, hubpasswd, hubpwfile, hubkey, hubkeypasswd) ==
    [ protocol |-> protocol, cafile |-> cafile, auth |-> auth, hubuser |-> hubuser,
      hubpasswd |-> hubpasswd, hubpwfile |-> hubpwfile,
      hubkey |-> hubkey, hubkeypasswd |-> hubkeypasswd ]

ClientOptions ==
    { ClientOptionsOf(p, ca, a[1], a[2], a[3], a[4], a[5], a[6]) :
        p \in {UNDEFINED, HTTP_PROTOCOL, HTTPS_PROTOCOL},
        ca \in BOOLEAN,
        a \in { <<UNDEFINED, FALSE, FALSE, FALSE, UNDEFINED, FALSE>>,
                <<UNDEFINED, TRUE, TRUE, FALSE, UNDEFINED, FALSE>>,
                <<"password", TRUE, FALSE, TRUE, UNDEFINED, FALSE>>,
                <<"password", TRUE, TRUE, TRUE, UNDEFINED, FALSE>>,
                <<"password", TRUE, FALSE, FALSE, UNDEFINED, FALSE>>,
                <<"password", FALSE, TRUE, FALSE, UNDEFINED, FALSE>>,
                <<UNDEFINED, FALSE, FALSE, FALSE, "plain", FALSE>>,
                <<"certificate", FALSE, FALSE, FALSE, "protected", TRUE>>,
                <<"certificate", FALSE, FALSE, FALSE, UNDEFINED, FALSE>>,
                <<"anonymous", TRUE, TRUE, FALSE, "plain", FALSE>>,
                <<"password", TRUE, TRUE, FALSE, "protected", TRUE>> } }

\* Bodies a hub response can have.
Bodies == {"text", "json_error", "json_bearer", "json_other",
           "html_doctype", "html_other", "empty"}
BodyText(body) == IF body = "empty" THEN "" ELSE body

\* What request() settles with: a response (status, body) or an error code.
Outcome(status, body, error) == [status |-> status, body |-> body, error |-> error]
NoOutcome == Outcome(0, NONE, NONE)

\* Error objects: class, the numeric code of an HTTPStatusError, the string
\* code of a node error, the message.
HTTPStatusError(code) ==
    [ class |-> "HTTPStatusError", code |-> code, ecode |-> NONE,
      message |-> "statusMessage" ]
CSHubRequestError(code, hubMessage) ==
    [ class |-> "CSHubRequestError", code |-> code, ecode |-> NONE,
      message |-> IF hubMessage = "" THEN "statusMessage" ELSE hubMessage ]
NodeError(ecode) ==
    [ class |-> "Error", code |-> 0, ecode |-> ecode, message |-> ecode ]
ErrorName(e) == IF e.class = "Error" THEN e.ecode ELSE e.class

createHubRequestError(status, body, errorFormat) ==
    IF errorFormat \in {UNDEFINED, "text", "json"}
    THEN IF body = "html_doctype"
         THEN HTTPStatusError(status)
         ELSE CSHubRequestError(status,
                 IF errorFormat \in {UNDEFINED, "json"} /\ body = "json_error"
                 THEN "json.error" ELSE BodyText(body))
    ELSE HTTPStatusError(status)

\* A request as handed to HTTPClientConnection.request: its headers, the
\* bearerToken field of the connection at that time, and whether the
\* options carry the cancellation handle.
SentRequest(kind, c, method, authorization, cancellable) ==
    [ kind |-> kind, protocol |-> c.protocol, method |-> method,
      headers |-> RequestHeaders(c, authorization, method = "POST"),
      bearerToken |-> c.bearerToken, cancellable |-> cancellable ]
NoConnection == HTTPClientConnection(NONE, NONE, "", FALSE)
NoSent == SentRequest(NONE, NoConnection, NONE, NONE, FALSE)

IdleOp ==
    [ kind |-> NONE, hasSignal |-> FALSE, pc |-> "idle", ret |-> NONE,
      gcSignal |-> FALSE, conn |-> 0, compat |-> UndefinedInfo,
      errorFormat |-> NONE, bearer |-> UNDEFINED,
      sent |-> NoSent, probe |-> NoOutcome, post |-> NoOutcome,
      registered |-> FALSE, cancelledInPost |-> FALSE,
      requests |-> 0, posts |-> 0, passwordCalls |-> 0,
      fileContent |-> << >>, password |-> << >>,
      promise |-> NONE, value |-> NONE, message |-> NONE ]

\* The promise of the call settles and the call is over: its local
\* variables are gone, what it observed (compat, probe, post), the numbers
\* of requests and sign-in POSTs it handed to a connection and the number
\* of times it invoked the password source are kept.
Settled(q, promise, value) ==
    [ IdleOp EXCEPT !.kind = q.kind, !.hasSignal = q.hasSignal, !.pc = "done",
                    !.compat = q.compat, !.probe = q.probe, !.post = q.post,
                    !.cancelledInPost = q.cancelledInPost,
                    !.requests = q.requests, !.posts = q.posts,
                    !.passwordCalls = q.passwordCalls,
                    !.promise = promise, !.value = value ]
OpResolve(q, value) == Settled(q, "resolved", value)
OpReject(q, e) ==
    [Settled(q, "rejected", ErrorName(e)) EXCEPT !.message = e.message]

\* hubkey.load() is called and the connection presents the certificate.
KeyLoaded(o) == o.auth \in {UNDEFINED, "certificate"} /\ o.hubkey # UNDEFINED
\* A client that hands over the passphrase callback of a key it does not load.
KeypasswdUnloaded(o) == o.hubkeypasswd /\ o.hubkey = "protected"

\* httpOptions.keypasswd is set.
Keypasswd(o) == KeyLoaded(o) /\ o.hubkeypasswd /\ o.hubkey = "protected"

SignInMethodInferred(o) ==
    IF o.hubkey # UNDEFINED THEN "certificate"
    ELSE IF o.hubuser THEN "password"
    ELSE IF o.auth \in {UNDEFINED, "anonymous"} THEN "anonymous"
    ELSE NONE

\* signIn's choice among certificate, password and anonymous.
SignInMethod(o) ==
    IF (o.auth = UNDEFINED /\ o.hubkey # UNDEFINED) \/ o.auth = "certificate"
    THEN "certificate"
    ELSE IF (o.auth = UNDEFINED /\ o.hubuser) \/ o.auth = "password"
    THEN "password"
    ELSE IF o.auth \in {UNDEFINED, "anonymous"} THEN "anonymous"
    ELSE NONE

\* this.httpConn = new HTTPClientConnection(httpOptions); return this.httpConn
Connect(c, q, protocol) ==
    LET id == CHOOSE i \in ConnIds :
                 /\ c.conns[i] = NoConnection
                 /\ \A j \in ConnIds : j < i => c.conns[j] # NoConnection
    IN [ client |-> [c EXCEPT !.httpConn = id,
                              !.conns[id] = HTTPClientConnection(
                                  protocol, HubHostname, HubPortString,
                                  Keypasswd(c.options))],
         op |-> [q EXCEPT !.conn = id, !.pc = q.ret] ]

\* The scheme chosen from the outcome of the HEAD probe; NONE: rethrow.
ProbeProtocolLenient(out) ==
    IF out.error = NONE
    THEN IF out.status = HTTP_MOVED_PERMANENTLY THEN HTTP_PROTOCOL ELSE HTTPS_PROTOCOL
    ELSE HTTP_PROTOCOL

ProbeProtocol(out) ==
    IF out.error = NONE
    THEN IF out.status = HTTP_MOVED_PERMANENTLY THEN HTTP_PROTOCOL ELSE HTTPS_PROTOCOL
    ELSE IF out.error \notin {EPROTO_CODE, ECONNREFUSED_CODE} THEN NONE
    ELSE HTTP_PROTOCOL

\* getHttpClientConnection(options) up to its first await or its return;
\* ret is where the caller goes on with the connection, gcSignal whether
\* options.cancellationSignal is given.
getHttpClientConnection(c, q0, ret, gcSignal) ==
    LET q == [q0 EXCEPT !.ret = ret, !.gcSignal = gcSignal]
    IN IF c.httpConn # 0
       THEN [client |-> c, op |-> [q EXCEPT !.conn = c.httpConn, !.pc = ret]]
       ELSE IF c.options.cafile \/ KeyLoaded(c.options)
       THEN [client |-> c, op |-> [q EXCEPT !.pc = "gc_load"]]
       ELSE IF c.options.protocol = UNDEFINED
       THEN [client |-> [c EXCEPT !.probeCount = c.probeCount + 1],
             op |-> [q EXCEPT
                       !.pc = "gc_probe",
                       !.registered = gcSignal,
                       !.requests = q.requests + 1,
                       !.sent = SentRequest("probe",
                                   HTTPClientConnection(HTTPS_PROTOCOL, HubHostname,
                                                        HubPortString,
                                                        Keypasswd(c.options)),
                                   "HEAD", NONE, gcSignal)]]
       ELSE Connect(c, q, c.options.protocol)

SignInCatchPlain(o, q, e) ==
    IF e.class = "CSHubRequestError" /\ e.code = HTTP_FORBIDDEN
    THEN OpResolve(q, e.message)
    ELSE OpReject(q, e)

\* The catch block of signIn around post().
SignInCatch(o, q, e) ==
    IF e.class = "CSHubRequestError" /\ e.code = HTTP_FORBIDDEN
    THEN OpResolve(q, e.message)
    ELSE IF SignInMethod(o) = "certificate" /\ e.ecode = ECONNRESET_CODE
    THEN OpReject(q, CSHubRequestError(0, "Certificate authentication failed"))
    ELSE OpReject(q, e)

\* An error thrown by getHttpClientConnection reaches the caller of the
\* operation, through signIn's catch block when post() called it.
GetConnectionThrow(o, q, e) ==
    IF q.ret = "post_send" THEN SignInCatch(o, q, e) ELSE OpReject(q, e)

\* The request of a call is destroyed with createCancellationError().
CancelRequest(o, q) ==
    IF q.pc = "gc_probe"
    THEN GetConnectionThrow(o, [q EXCEPT !.probe = Outcome(0, NONE, "cancelled")],
                            NodeError("cancelled"))
    ELSE OpReject(q, NodeError("cancelled"))

\* post(): getHttpClientConnection() without options.
post(c, q) == getHttpClientConnection(c, q, "post_send", FALSE)

\* A continuation of a settled promise is queued: it runs before any event
\* of the event loop.
ClientMicrotaskPending ==
    \E o \in OpIds :
       ops[o].pc \in {"cap_ready", "cv_send", "post_send", "res_send",
                      "anon_clear", "bearer_set"}

\* signIn(options) / fetchProjectInfo(_, options) is called: both start with
\* await this.getHubCapabilityInfo(), which passes no options on.
ClientStart(o, kind, hasSignal) ==
    /\ ops[o].pc = "idle"
    /\ LET q == [IdleOp EXCEPT !.kind = kind, !.hasSignal = hasSignal,
                               !.promise = "pending"]
           cached == client.hubVersionCompatibilityInfo
           r == IF cached = NullInfo
                THEN [client |-> client, op |-> [q EXCEPT !.pc = "cap_ready"]]
                ELSE IF cached # UndefinedInfo
                THEN [client |-> client,
                      op |-> [q EXCEPT !.pc = "cap_ready", !.compat = cached]]
                ELSE getHttpClientConnection(client, q, "cv_send", FALSE)
       IN /\ client' = r.client
          /\ ops' = [ops EXCEPT ![o] = r.op]
    /\ UNCHANGED <<checkVersionCount, signal, CapVars, ReqVars, DownloadVars, CookieVars, CallVars>>

\* readFile(cafile) and hubkey.load() are over.
ClientLoad(o, ok) ==
    /\ ~ClientMicrotaskPending
    /\ ops[o].pc = "gc_load"
    /\ LET r == IF ok
                THEN Connect(client, ops[o], HTTPS_PROTOCOL)
                ELSE [client |-> client,
                      op |-> GetConnectionThrow(client.options, ops[o], NodeError("ENOENT"))]
       IN /\ client' = r.client
          /\ ops' = [ops EXCEPT ![o] = r.op]
    /\ UNCHANGED <<checkVersionCount, signal, CapVars, ReqVars, DownloadVars, CookieVars, CallVars>>

\* The HEAD probe settles.
ClientProbe(o, out) ==
    /\ ~ClientMicrotaskPending
    /\ ops[o].pc = "gc_probe"
    /\ LET q == [ops[o] EXCEPT !.probe = out, !.registered = FALSE]
           protocol == ProbeProtocol(out)
           r == IF protocol = NONE
                THEN [client |-> client,
                      op |-> GetConnectionThrow(client.options, q, NodeError(out.error))]
                ELSE Connect(client, q, protocol)
       IN /\ client' = r.client
          /\ ops' = [ops EXCEPT ![o] = r.op]
    /\ UNCHANGED <<checkVersionCount, signal, CapVars, ReqVars, DownloadVars, CookieVars, CallVars>>

\* fetch() of the check_version resource: httpConn.request(resource, undefined)
ClientSendCheckVersion(o) ==
    /\ ops[o].pc = "cv_send"
    /\ LET q == ops[o]
       IN ops' = [ops EXCEPT ![o] =
                    [q EXCEPT !.pc = "cv_flight", !.probe = NoOutcome,
                              !.requests = q.requests + 1,
                              !.sent = SentRequest("check_version", client.conns[q.conn],
                                                   "GET", NONE, FALSE)]]
    /\ checkVersionCount' = checkVersionCount + 1
    /\ UNCHANGED <<client, signal, CapVars, ReqVars, DownloadVars, CookieVars, CallVars>>

\* The check_version request settles: fetchJson, the 404 handler of
\* fetchVersionCompatibilityInfo and the store of getVersionCompatibilityInfo.
\* info is the parsed body of a 200 response.
ClientCheckVersionResponse(o, out, info) ==
    /\ ~ClientMicrotaskPending
    /\ ops[o].pc = "cv_flight"
    /\ LET q == ops[o]
           errorFormat ==
               IF getHubCapabilityInfo(client.hubVersionCompatibilityInfo).openAPI
               THEN "json" ELSE UNDEFINED
       IN IF out.error # NONE
          THEN /\ ops' = [ops EXCEPT ![o] = OpReject(q, NodeError(out.error))]
               /\ client' = client
          ELSE IF out.status = HTTP_OK
          THEN IF out.body \in {"json_other"}
               THEN /\ client' = [client EXCEPT !.hubVersionCompatibilityInfo = info]
                    /\ ops' = [ops EXCEPT ![o] =
                                 [q EXCEPT !.pc = "cap_ready", !.compat = info]]
               ELSE /\ ops' = [ops EXCEPT ![o] = OpReject(q, NodeError("SyntaxError"))]
                    /\ client' = client
          ELSE IF out.status = HTTP_NOT_FOUND
          THEN /\ client' = [client EXCEPT !.hubVersionCompatibilityInfo = NullInfo]
               /\ ops' = [ops EXCEPT ![o] = [q EXCEPT !.pc = "cap_ready"]]
          ELSE /\ ops' = [ops EXCEPT ![o] =
                            OpReject(q, createHubRequestError(out.status, out.body, errorFormat))]
               /\ client' = client
    /\ UNCHANGED <<checkVersionCount, signal, CapVars, ReqVars, DownloadVars, CookieVars, CallVars>>

\* The code after `await this.getHubCapabilityInfo()`.  In password mode
\* the hubpasswd callback is called, or the read of hubpwfile is started.
ClientCapReady(o) ==
    /\ ops[o].pc = "cap_ready"
    /\ LET q == ops[o]
           opt == client.options
           method == SignInMethod(opt)
           unchanged(q2) == [client |-> client, op |-> q2]
           r == IF q.kind = "fetchProjectInfo"
                THEN getHttpClientConnection(client, q, "res_send", q.hasSignal)
                ELSE IF q.kind = "fetchSarifAnalysisDifferenceStream"
                THEN IF ~getHubCapabilityInfo(q.compat).sarifSearch
                     THEN unchanged(OpReject(q, NodeError("hub-too-old")))
                     ELSE getHttpClientConnection(client, q, "res_send", q.hasSignal)
                ELSE IF method = "certificate"
                THEN IF opt.hubkey = UNDEFINED
                     THEN unchanged(OpReject(q, NodeError("no-hubkey")))
                     ELSE post(client, q)
                ELSE IF method = "password"
                THEN IF ~opt.hubuser
                     THEN unchanged(OpReject(q, NodeError("no-hubuser")))
                     ELSE IF opt.hubpasswd \/ opt.hubpwfile
                     THEN unchanged([q EXCEPT !.pc = "pw_wait",
                                              !.passwordCalls = q.passwordCalls + 1])
                     ELSE unchanged(OpReject(q, NodeError("no-password")))
                ELSE IF method = "anonymous"
                THEN getHttpClientConnection(client, q, "anon_clear", q.hasSignal)
                ELSE unchanged(OpReject(q, NodeError("no-method")))
       IN /\ client' = r.client
          /\ ops' = [ops EXCEPT ![o] = r.op]
    /\ UNCHANGED <<checkVersionCount, signal, CapVars, ReqVars, DownloadVars, CookieVars, CallVars>>

\* Strings are sequences of characters.  String.prototype.trim() removes
\* the white space at both ends.
Whitespace == {" ", "\t", "\n"}
RECURSIVE TrimStart(_)
TrimStart(str) ==
    IF str # << >> /\ Head(str) \in Whitespace THEN TrimStart(Tail(str)) ELSE str
RECURSIVE TrimEnd(_)
TrimEnd(str) ==
    IF str # << >> /\ str[Len(str)] \in Whitespace
    THEN TrimEnd(SubSeq(str, 1, Len(str) - 1)) ELSE str
trim(str) == TrimEnd(TrimStart(str))

\* What the hubpasswd callback returns, and contents of the password file.
CallbackPassword == <<"c", "b">>
FileContents == { <<"p", "w">>, <<" ", "p", " ", "w", "\n">>, <<"\n">> }

\* The password promise of signIn: connOptions.hubpasswd() when the
\* callback is configured, else the trimmed content of hubpwfile.
passwordPromise(opt, content) ==
    IF opt.hubpasswd THEN CallbackPassword ELSE trim(content)

\* A signIn that asks the password source a second time.
ClientPasswordTwice(o, ok, content) ==
    /\ ~ClientMicrotaskPending
    /\ ops[o].pc = "pw_wait"
    /\ (client.options.hubpasswd \/ ~ok) => content = << >>
    /\ LET q == ops[o]
           r == IF ok /\ q.passwordCalls < 2
                THEN [client |-> client,
                      op |-> [q EXCEPT !.passwordCalls = q.passwordCalls + 1]]
                ELSE IF ok
                THEN post(client, [q EXCEPT
                                     !.fileContent = content,
                                     !.password = passwordPromise(client.options, content)])
                ELSE [client |-> client,
                      op |-> OpReject(q, NodeError("password-error"))]
       IN /\ client' = r.client
          /\ ops' = [ops EXCEPT ![o] = r.op]
    /\ UNCHANGED <<checkVersionCount, signal, CapVars, ReqVars, DownloadVars, CookieVars, CallVars>>

\* The password promise (hubpasswd callback or hubpwfile read) settles.
ClientPassword(o, ok, content) ==
    /\ ~ClientMicrotaskPending
    /\ ops[o].pc = "pw_wait"
    /\ (client.options.hubpasswd \/ ~ok) => content = << >>
    /\ LET r == IF ok
                THEN post(client, [ops[o] EXCEPT
                                     !.fileContent = content,
                                     !.password = passwordPromise(client.options, content)])
                ELSE [client |-> client,
                      op |-> OpReject(ops[o], NodeError("password-error"))]
       IN /\ client' = r.client
          /\ ops' = [ops EXCEPT ![o] = r.op]
    /\ UNCHANGED <<checkVersionCount, signal, CapVars, ReqVars, DownloadVars, CookieVars, CallVars>>

\* Anonymous sign-in: clear the cookies and the bearer token, then post on
\* a hub with the session API, or finish.
ClientAnonymous(o) ==
    /\ ops[o].pc = "anon_clear"
    /\ LET q == [ops[o] EXCEPT !.probe = NoOutcome]
           c2 == [client EXCEPT
                    !.conns[q.conn] = [clearCookies(@) EXCEPT !.bearerToken = UNDEFINED]]
           r == IF getHubCapabilityInfo(q.compat).openAPI
                THEN post(c2, q)
                ELSE [client |-> c2, op |-> OpResolve(q, UNDEFINED)]
       IN /\ client' = r.client
          /\ ops' = [ops EXCEPT ![o] = r.op]
    /\ UNCHANGED <<checkVersionCount, signal, CapVars, ReqVars, DownloadVars, CookieVars, CallVars>>

\* post() after it got the connection: httpOptions2 takes the headers and
\* the timeout of the caller's options, nothing else.
ClientSendPost(o) ==
    /\ ops[o].pc = "post_send"
    /\ LET q == ops[o]
           openAPI == getHubCapabilityInfo(q.compat).openAPI
           authorization ==
               IF SignInMethod(client.options) = "password" /\ openAPI
               THEN "Basic" ELSE NONE
           errorFormat2 ==
               IF getHubCapabilityInfo(client.hubVersionCompatibilityInfo).openAPI
               THEN "json"
               ELSE IF ~openAPI THEN "text" ELSE "html"
       IN ops' = [ops EXCEPT ![o] =
                    [q EXCEPT !.pc = "post_flight", !.probe = NoOutcome,
                              !.requests = q.requests + 1, !.posts = q.posts + 1,
                              !.errorFormat = errorFormat2,
                              !.sent = SentRequest("signin", client.conns[q.conn],
                                                   "POST", authorization, FALSE)]]
    /\ UNCHANGED <<client, checkVersionCount, signal, CapVars, ReqVars, DownloadVars, CookieVars, CallVars>>

\* The sign-in POST settles: the rest of post() and of signIn's try block.
ClientPostResponse(o, out, setCookie) ==
    /\ ~ClientMicrotaskPending
    /\ ops[o].pc = "post_flight"
    /\ (setCookie # {} => out.status = HTTP_OK)
    /\ LET q == [ops[o] EXCEPT !.post = out]
           opt == client.options
           c2 == [client EXCEPT !.conns[q.conn].httpCookies = @ \cup setCookie]
           isSessionResource == getHubCapabilityInfo(q.compat).openAPI
       IN /\ client' = c2
          /\ ops' = [ops EXCEPT ![o] =
               IF out.error # NONE
               THEN SignInCatch(opt, q, NodeError(out.error))
               ELSE IF out.status # HTTP_OK
               THEN SignInCatch(opt, q,
                        createHubRequestError(out.status, out.body, q.errorFormat))
               ELSE IF ~isSessionResource
               THEN OpResolve(q, UNDEFINED)
               ELSE IF out.body \notin {"json_error", "json_bearer", "json_other"}
               THEN SignInCatch(opt, q, NodeError("SyntaxError"))
               ELSE getHttpClientConnection(c2,
                        [q EXCEPT !.bearer = IF out.body = "json_bearer"
                                             THEN "token" ELSE UNDEFINED],
                        "bearer_set", q.hasSignal).op]
    /\ UNCHANGED <<checkVersionCount, signal, CapVars, ReqVars, DownloadVars, CookieVars, CallVars>>

\* httpConn.bearerToken = sessionInfo.bearer
ClientSetBearer(o) ==
    /\ ops[o].pc = "bearer_set"
    /\ client' = [client EXCEPT !.conns[ops[o].conn].bearerToken = ops[o].bearer]
    /\ ops' = [ops EXCEPT ![o] = OpResolve(@, UNDEFINED)]
    /\ UNCHANGED <<checkVersionCount, signal, CapVars, ReqVars, DownloadVars, CookieVars, CallVars>>

\* The resource an operation fetches after the capability check:
\* /project_search.json or /warning_detail_search.sarif.
ResourceOf(kind) ==
    IF kind = "fetchSarifAnalysisDifferenceStream"
    THEN "warning_detail_search" ELSE "resource"

\* fetch() of the operation's resource: httpConn.request(resource, httpOptions)
ClientSendResource(o) ==
    /\ ops[o].pc = "res_send"
    /\ LET q == ops[o]
       IN ops' = [ops EXCEPT ![o] =
                    [q EXCEPT !.pc = "res_flight", !.probe = NoOutcome,
                              !.registered = q.hasSignal,
                              !.requests = q.requests + 1,
                              !.sent = SentRequest(ResourceOf(q.kind), client.conns[q.conn],
                                                   "GET", NONE, q.hasSignal)]]
    /\ UNCHANGED <<client, checkVersionCount, signal, CapVars, ReqVars, DownloadVars, CookieVars, CallVars>>

\* The resource request settles: fetch(), and parseResponseJson for the
\* project list (the SARIF stream is handed to the caller as it is).
ClientResourceResponse(o, out) ==
    /\ ~ClientMicrotaskPending
    /\ ops[o].pc = "res_flight"
    /\ LET q == ops[o]
           errorFormat ==
               IF getHubCapabilityInfo(client.hubVersionCompatibilityInfo).openAPI
               THEN "json"
               ELSE IF ~getHubCapabilityInfo(q.compat).openAPI THEN "text"
               ELSE UNDEFINED
       IN ops' = [ops EXCEPT ![o] =
                    IF out.error # NONE THEN OpReject(q, NodeError(out.error))
                    ELSE IF out.status # HTTP_OK
                    THEN OpReject(q, createHubRequestError(out.status, out.body, errorFormat))
                    ELSE IF q.kind = "fetchSarifAnalysisDifferenceStream"
                    THEN OpResolve(q, "stream")
                    ELSE IF out.body = "json_other" THEN OpResolve(q, "rows")
                    ELSE OpReject(q, NodeError("SyntaxError"))]
    /\ UNCHANGED <<client, checkVersionCount, signal, CapVars, ReqVars, DownloadVars, CookieVars, CallVars>>

\* The cancellation handle is triggered: the requests that registered a
\* callback are destroyed with createCancellationError().
ClientCancel ==
    /\ ~ClientMicrotaskPending
    /\ ~signal
    /\ \E o \in OpIds : ops[o].hasSignal /\ ops[o].promise = "pending"
    /\ signal' = TRUE
    /\ ops' = [o \in OpIds |->
                 LET q == ops[o]
                     q2 == IF q.hasSignal /\ q.pc = "post_flight"
                           THEN [q EXCEPT !.cancelledInPost = TRUE] ELSE q
                 IN IF q.registered THEN CancelRequest(client.options, q2) ELSE q2]
    /\ UNCHANGED <<client, checkVersionCount, CapVars, ReqVars, DownloadVars, CookieVars, CallVars>>

\* A callback registered on a triggered handle is called from a timer.
ClientCancelReplay(o) ==
    /\ ~ClientMicrotaskPending
    /\ signal
    /\ ops[o].registered
    /\ ops' = [ops EXCEPT ![o] = CancelRequest(client.options, @)]
    /\ UNCHANGED <<client, checkVersionCount, signal, CapVars, ReqVars, DownloadVars, CookieVars, CallVars>>

ProbeOutcomes ==
    { Outcome(s, "empty", NONE) : s \in {HTTP_OK, HTTP_MOVED_PERMANENTLY, HTTP_FORBIDDEN} }
    \cup { Outcome(0, NONE, e) :
             e \in {EPROTO_CODE, ECONNREFUSED_CODE, ECONNRESET_CODE,
                    DEPTH_ZERO_SELF_SIGNED_CERT_CODE} }

CheckVersionOutcomes ==
    { Outcome(HTTP_OK, b, NONE) : b \in {"json_other", "html_other"} }
    \cup { Outcome(s, b, NONE) : s \in {HTTP_NOT_FOUND, HTTP_FORBIDDEN},
                                 b \in {"text", "html_doctype"} }
    \cup { Outcome(0, NONE, ECONNRESET_CODE) }

\* check_version payloads: a hub with the session API, the same hub
\* refusing this client version, a hub without the openapi capability.
CheckVersionPayloads ==
    { [kind |-> "info", hubVersionNumber |-> 710, clientOK |-> "true", openapi |-> "true"],
      [kind |-> "info", hubVersionNumber |-> 710, clientOK |-> "false", openapi |-> "true"],
      [kind |-> "info", hubVersionNumber |-> 700, clientOK |-> UNDEFINED, openapi |-> UNDEFINED] }

PostOutcomes ==
    { Outcome(HTTP_OK, b, NONE) : b \in {"json_bearer", "json_other", "text"} }
    \cup { Outcome(HTTP_FORBIDDEN, b, NONE) :
             b \in {"text", "json_error", "html_doctype", "html_other", "empty"} }
    \cup { Outcome(HTTP_NOT_FOUND, "text", NONE) }
    \cup { Outcome(0, NONE, e) : e \in {ECONNRESET_CODE, DEPTH_ZERO_SELF_SIGNED_CERT_CODE} }

ResourceOutcomes ==
    { Outcome(HTTP_OK, b, NONE) : b \in {"json_other", "text"} }
    \cup { Outcome(HTTP_FORBIDDEN, b, NONE) : b \in {"json_error", "html_doctype"} }
    \cup { Outcome(0, NONE, ECONNRESET_CODE) }

ClientInit(optionSet) ==
    /\ CapIdle
    /\ ReqIdle
    /\ signal = FALSE
    /\ client \in { [ options |-> opt, httpConn |-> 0,
                      conns |-> [i \in ConnIds |-> NoConnection],
                      probeCount |-> 0,
                      hubVersionCompatibilityInfo |-> UndefinedInfo ] :
                    opt \in optionSet }
    /\ ops = [o \in OpIds |-> IdleOp]
    /\ checkVersionCount = 0
    /\ DownloadIdle
    /\ CookieIdle
    /\ CallIdle

\* The steps of call o, an operation among kinds.
ClientOp(o, kinds) ==
    \/ \E k \in kinds, s \in BOOLEAN : ClientStart(o, k, s)
    \/ \E ok \in BOOLEAN : ClientLoad(o, ok)
    \/ \E out \in ProbeOutcomes : ClientProbe(o, out)
    \/ ClientSendCheckVersion(o)
    \/ \E out \in CheckVersionOutcomes, info \in CheckVersionPayloads :
          ClientCheckVersionResponse(o, out, info)
    \/ ClientCapReady(o)
    \/ \E ok \in BOOLEAN, content \in FileContents \cup {<< >>} :
          ClientPassword(o, ok, content)
    \/ ClientAnonymous(o)
    \/ ClientSendPost(o)
    \/ \E out \in PostOutcomes, ck \in SUBSET CookieNames :
          ClientPostResponse(o, out, ck)
    \/ ClientSetBearer(o)
    \/ ClientSendResource(o)
    \/ \E out \in ResourceOutcomes : ClientResourceResponse(o, out)
    \/ ClientCancelReplay(o)

\* SpecSignIn: one operation on a fresh client, every configuration.
OpKinds == {"signIn", "fetchProjectInfo", "fetchSarifAnalysisDifferenceStream"}
InitSignIn == ClientInit(ClientOptions)
NextSignIn == ClientOp(1, OpKinds) \/ ClientCancel
SpecSignIn == InitSignIn /\ [][NextSignIn]_vars

\* SpecClient: MaxOps operations on one client, started in any order and
\* possibly before the earlier ones have finished.
ConcurrentClientOptions ==
    { ClientOptionsOf(UNDEFINED, FALSE, UNDEFINED, FALSE, FALSE, FALSE, UNDEFINED, FALSE),
      ClientOptionsOf(HTTPS_PROTOCOL, FALSE, UNDEFINED, TRUE, TRUE, FALSE, UNDEFINED, FALSE),
      ClientOptionsOf(UNDEFINED, TRUE, "certificate", FALSE, FALSE, FALSE, "protected", TRUE) }
InitClient == ClientInit(ConcurrentClientOptions)
NextClient ==
    (\E o \in OpIds : ClientOp(o, {"signIn", "fetchProjectInfo"})) \/ ClientCancel
SpecClient == InitClient /\ [][NextClient]_vars

\* SpecSession: MaxOps operations on one client, one after the other (the
\* caller awaits each before it starts the next).
InitSession == ClientInit(ConcurrentClientOptions)
NextSession ==
    \/ \E o \in OpIds :
          /\ \A p \in OpIds : (p < o => ops[p].pc = "done") /\ (p > o => ops[p].pc = "idle")
          /\ ClientOp(o, {"signIn", "fetchProjectInfo"})
    \/ ClientCancel
SpecSession == InitSession /\ [][NextSession]_vars

(***************************************************************************)
(* downloadSarifResults (sarif_download_command, src/unnamed/part_008).    *)
(*                                                                         *)
(* download.pc:                                                            *)
(*   idle     not called                                                   *)
(*   fetch    fetchSarifAnalysis[Difference]Stream is running and has not  *)
(*            handed the SARIF request to the connection yet               *)
(*   flight   the SARIF request is in flight                               *)
(*   piping   sarifStream.pipe(destinationStream) is set up                *)
(*   finished the destination emitted 'finish'; resolve() is on a timer    *)
(*   settled  the returned promise is settled                              *)
(* sourceEnded: the SARIF stream emitted 'end' and pipe() called end() on  *)
(* the destination, which has not emitted 'finish' yet.                    *)
(* aborted: the request object was destroyed by the cancellation callback; *)
(* its error has not been delivered yet.                                   *)
(***************************************************************************)
MaxTicks == 2
MaxChunks == 2

IdleDownload ==
    [ pc |-> "idle", diff |-> FALSE, timer |-> FALSE, ticks |-> 0, chunks |-> 0,
      destination |-> NONE, file |-> NONE, sourceEnded |-> FALSE,
      aborted |-> FALSE, promise |-> NONE, value |-> NONE,
      cancelledInProgress |-> FALSE ]

\* The local function reject(e) of downloadSarifResults, taking
\* isCancellationRequested as argument: clearInterval, destinationStream
\* .end(callback), _reject.  The callback, which unlinks the file, is called
\* later (DownloadEndCallback).
DownloadRejectTimerKept(d, e, isCancellationRequested) ==
    [ d EXCEPT !.pc = "settled", !.aborted = FALSE,
               !.destination = "ending",
               !.promise = "rejected",
               !.value = IF isCancellationRequested THEN "cancelled" ELSE e ]
DownloadReject(d, e, isCancellationRequested) ==
    [ d EXCEPT !.pc = "settled", !.timer = FALSE, !.aborted = FALSE,
               !.destination = "ending",
               !.promise = "rejected",
               !.value = IF isCancellationRequested THEN "cancelled" ELSE e ]

\* A cancellation callback registered on a handle that was already
\* triggered is called from a timer of the token, before any network event.
DownloadReplayPending ==
    signal /\ ~download.aborted /\ ~download.sourceEnded
           /\ download.pc \in {"flight", "piping"}

\* downloadSarifResults is called: the destination file is created, the
\* progress timer started, the SARIF fetch started.
DownloadStart(diff) ==
    /\ download.pc = "idle"
    /\ download' = [ IdleDownload EXCEPT
                       !.pc = "fetch", !.diff = diff, !.timer = TRUE,
                       !.destination = "open", !.file = "exists",
                       !.promise = "pending" ]
    /\ UNCHANGED <<signal, CapVars, ReqVars, ClientVars, CookieVars, CallVars>>

\* setInterval callback: progress.report
DownloadTick ==
    /\ download.timer
    /\ download.ticks < MaxTicks
    /\ download' = [download EXCEPT !.ticks = @ + 1]
    /\ UNCHANGED <<signal, CapVars, ReqVars, ClientVars, CookieVars, CallVars>>

\* fetch() hands the SARIF request to the connection with the handle.
DownloadRequestSent ==
    /\ download.pc = "fetch"
    /\ download' = [download EXCEPT !.pc = "flight"]
    /\ UNCHANGED <<signal, CapVars, ReqVars, ClientVars, CookieVars, CallVars>>

\* sarifPromise rejects: .catch(reject).  An aborted request rejects with
\* the cancellation error.
DownloadFetchRejected(e) ==
    /\ ~DownloadReplayPending
    /\ download.pc \in {"fetch", "flight"}
    /\ download.aborted <=> (e = "cancelled")
    /\ (e = "hub-too-old" => download.diff /\ download.pc = "fetch")
    /\ download' = DownloadReject(download, e, signal)
    /\ UNCHANGED <<signal, CapVars, ReqVars, ClientVars, CookieVars, CallVars>>

\* sarifPromise resolves with the response body: error handlers, pipe.
DownloadResponse ==
    /\ ~DownloadReplayPending
    /\ download.pc = "flight"
    /\ ~download.aborted
    /\ download' = [download EXCEPT !.pc = "piping"]
    /\ UNCHANGED <<signal, CapVars, ReqVars, ClientVars, CookieVars, CallVars>>

\* A chunk of the body is written to the destination.
DownloadChunk ==
    /\ ~DownloadReplayPending
    /\ download.pc = "piping"
    /\ ~download.aborted /\ ~download.sourceEnded
    /\ download.chunks < MaxChunks
    /\ download' = [download EXCEPT !.chunks = @ + 1]
    /\ UNCHANGED <<signal, CapVars, ReqVars, ClientVars, CookieVars, CallVars>>

\* sarifStream 'error': a reset of the connection, or the "aborted" error of
\* a destroyed request.
DownloadSourceError ==
    /\ ~DownloadReplayPending
    /\ download.pc = "piping"
    /\ ~download.sourceEnded
    /\ download' = DownloadReject(download, ECONNRESET_CODE, signal)
    /\ UNCHANGED <<signal, CapVars, ReqVars, ClientVars, CookieVars, CallVars>>

\* 'error' of the destination stream (the write failed).
DownloadDestinationError ==
    /\ download.pc = "piping"
    /\ download' = DownloadReject(download, "EIO", signal)
    /\ UNCHANGED <<signal, CapVars, ReqVars, ClientVars, CookieVars, CallVars>>

\* sarifStream 'end': pipe() ends the destination; the request object
\* closes and unregisters the cancellation callback.
DownloadSourceEnd ==
    /\ ~DownloadReplayPending
    /\ download.pc = "piping"
    /\ ~download.aborted /\ ~download.sourceEnded
    /\ download' = [download EXCEPT !.sourceEnded = TRUE]
    /\ UNCHANGED <<signal, CapVars, ReqVars, ClientVars, CookieVars, CallVars>>

\* 'finish' of the destination: clearInterval, setTimeout(resolve).
DownloadFinish ==
    /\ download.pc = "piping"
    /\ download.sourceEnded
    /\ download' = [download EXCEPT !.pc = "finished", !.timer = FALSE,
                                    !.destination = "finished"]
    /\ UNCHANGED <<signal, CapVars, ReqVars, ClientVars, CookieVars, CallVars>>

\* The timer set by the 'finish' handler: resolve(destinationFilePath).
DownloadResolve ==
    /\ download.pc = "finished"
    /\ download' = [download EXCEPT !.pc = "settled", !.promise = "resolved",
                                    !.value = "destinationFilePath"]
    /\ UNCHANGED <<signal, CapVars, ReqVars, ClientVars, CookieVars, CallVars>>

\* The callback given to destinationStream.end() by reject(): the stream
\* has ended, unlinkFile is called.
DownloadEndCallback ==
    /\ download.destination = "ending"
    /\ download' = [download EXCEPT !.destination = "ended", !.file = "unlinking"]
    /\ UNCHANGED <<signal, CapVars, ReqVars, ClientVars, CookieVars, CallVars>>

\* unlink completes: the file is gone (an error of unlink is ignored).
DownloadUnlinked ==
    /\ download.file = "unlinking"
    /\ download' = [download EXCEPT !.file = "removed"]
    /\ UNCHANGED <<signal, CapVars, ReqVars, ClientVars, CookieVars, CallVars>>

\* The user cancels the progress notification: the token is triggered and
\* a registered callback destroys the request object.
DownloadCancel ==
    /\ ~signal
    /\ download.pc \in {"fetch", "flight", "piping", "finished"}
    /\ signal' = TRUE
    /\ download' = [download EXCEPT
                      !.cancelledInProgress = (download.pc # "finished"),
                      !.aborted = (download.pc \in {"flight", "piping"}
                                   /\ ~download.sourceEnded)]
    /\ UNCHANGED <<CapVars, ReqVars, ClientVars, CookieVars, CallVars>>

\* The callback of a request sent after the trigger is called.
DownloadCancelReplay ==
    /\ DownloadReplayPending
    /\ download' = [download EXCEPT !.aborted = TRUE]
    /\ UNCHANGED <<signal, CapVars, ReqVars, ClientVars, CookieVars, CallVars>>

InitDownload ==
    /\ CapIdle
    /\ ReqIdle
    /\ ClientIdle
    /\ signal = FALSE
    /\ download = IdleDownload
    /\ CookieIdle
    /\ CallIdle

NextDownload ==
    \/ \E diff \in BOOLEAN : DownloadStart(diff)
    \/ DownloadTick
    \/ DownloadRequestSent
    \/ \E e \in {"cancelled", "hub-too-old", "HTTPStatusError", ECONNRESET_CODE} :
          DownloadFetchRejected(e)
    \/ DownloadResponse
    \/ DownloadChunk
    \/ DownloadSourceError
    \/ DownloadDestinationError
    \/ DownloadSourceEnd
    \/ DownloadFinish
    \/ DownloadResolve
    \/ DownloadEndCallback
    \/ DownloadUnlinked
    \/ DownloadCancel
    \/ DownloadCancelReplay

SpecDownload == InitDownload /\ [][NextDownload]_vars

\* The callback of end() and the completion of unlink are events of the
\* event loop: once pending they happen.
SpecDownloadFair ==
    /\ SpecDownload
    /\ WF_vars(DownloadEndCallback)
    /\ WF_vars(DownloadUnlinked)

(***************************************************************************)
(* The cookie jar of HTTPClientConnection (src/unnamed/part_004).          *)
(* A Set-Cookie header is a record [name, value, attribs]: the name and    *)
(* the value of its first part, and the parts after the first ";", each    *)
(* as the sequence kv of its pieces between "=" signs ("Path=/x=1" is      *)
(* <<"Path", "/x", "1">>).  A time is a number of milliseconds.  An        *)
(* optional field (Date|undefined, number|undefined, string|undefined) is  *)
(* a set with at most one element.                                         *)
(***************************************************************************)
MaxSetCookies == 2
MaxClock == 2
MillisecondsPerSecond == 1000

\* String.prototype.toLowerCase on the attribute names, URL schemes and
\* host names of the model.
toLowerCase(s) ==
    CASE s = "Path" -> "path"
      [] s = "Domain" -> "domain"
      [] s = "Max-Age" -> "max-age"
      [] s = "Expires" -> "expires"
      [] s = "HTTP" -> "http"
      [] s = "HTTPS" -> "https"
      [] s = "Https" -> "https"
      [] s = "Hub" -> "hub"
      [] OTHER -> s

\* parseInt on the attribute values and port strings of the model; {} is
\* NaN.
parseInt(s) ==
    CASE s = "1" -> {1}
      [] s = "2" -> {2}
      [] s = "80" -> {80}
      [] s = "443" -> {443}
      [] s = "7340" -> {7340}
      [] OTHER -> {}

\* new Date(s).getTime() on the attribute values of the model; {} is an
\* Invalid Date.
DateTime(s) ==
    CASE s = "Thu, 01 Jan 1970 00:00:01 GMT" -> {1 * MillisecondsPerSecond}
      [] s = "Thu, 01 Jan 1970 00:00:02 GMT" -> {2 * MillisecondsPerSecond}
      [] OTHER -> {}

SetCookieAttribs ==
    { p \o d \o e :
        p \in {<< >>, << <<"Path", "/x">> >>, << <<"Path", "/x", "1">> >>},
        d \in {<< >>, << <<"Domain", "hub">> >>},
        e \in {<< >>, << <<"Max-Age", "1">> >>,
               << <<"Expires", "Thu, 01 Jan 1970 00:00:01 GMT">> >>} }

SetCookieHeaders ==
    [ name : {"sid"}, value : {"1", "2"}, attribs : SetCookieAttribs ]

\* attribValue: kv[1] when the part has a "=", undefined otherwise.
AttribValue(kv) == IF Len(kv) > 1 THEN {kv[2]} ELSE {}

\* The parts named `name`, in order, and the value the constructor's loop
\* leaves after a sequence of parts that each assign it: the last one's.
Parts(attribs, name) ==
    SelectSeq(attribs, LAMBDA kv : toLowerCase(kv[1]) = name)
LastAttrib(parts) ==
    IF parts = << >> THEN {} ELSE AttribValue(parts[Len(parts)])

\* this.attributes, as the set of its <<key, value>> entries.
Attributes(attribs) ==
    { <<toLowerCase(attribs[i][1]), AttribValue(attribs[i])>> :
        i \in { i \in 1..Len(attribs) :
                  \A j \in (i+1)..Len(attribs) :
                     toLowerCase(attribs[j][1]) # toLowerCase(attribs[i][1]) } }

Truthy(optional) == optional # {} /\ optional # {""}
OrEmpty(optional) == IF optional = {} THEN "" ELSE CHOOSE v \in optional : TRUE

\* this.key: the name, or name;domain;path (a string without ";" in its
\* three parts, modelled as the triple) when a domain or a path is set.
CookieKey(name, domain, path) ==
    IF Truthy(domain) \/ Truthy(path)
    THEN <<name, OrEmpty(domain), OrEmpty(path)>>
    ELSE <<name>>

\* new HTTPCookie(setcookie, created).  The max age is read from an
\* attribute named "maxage".
HTTPCookie(setcookie, created) ==
    LET attribs == setcookie.attribs
        numeric(kv) == \E v \in AttribValue(kv) : v # "" /\ parseInt(v) # {}
        dated(kv) == \E v \in AttribValue(kv) : v # "" /\ DateTime(v) # {}
        maxAge == UNION { parseInt(v) :
                    v \in LastAttrib(SelectSeq(Parts(attribs, "maxage"), numeric)) }
        expires == UNION { DateTime(v) :
                     v \in LastAttrib(SelectSeq(Parts(attribs, "expires"), dated)) }
        domain == LastAttrib(Parts(attribs, "domain"))
        path == LastAttrib(Parts(attribs, "path"))
    IN [ cookie |-> <<setcookie.name, setcookie.value>>,
         name |-> setcookie.name,
         value |-> setcookie.value,
         created |-> created,
         expires |-> expires,
         maxAge |-> maxAge,
         domain |-> domain,
         path |-> path,
         attributes |-> Attributes(attribs),
         key |-> CookieKey(setcookie.name, domain, path) ]

\* responseCallback, the loop over res.headers["set-cookie"]: the cookie is
\* constructed without a creation date and replaces the entry of its key.
\* `setcookie` and `received` are not fields of the program: they record
\* the header the cookie was made from and when it was processed.
RECURSIVE StoreCookies(_, _, _)
StoreCookies(cookies, setcookies, received) ==
    IF setcookies = << >> THEN cookies
    ELSE LET httpCookie == HTTPCookie(Head(setcookies), {})
                              @@ [ setcookie |-> Head(setcookies),
                                   received |-> received ]
         IN StoreCookies(
                { c \in cookies : c.key # httpCookie.key } \cup {httpCookie},
                Tail(setcookies), received)

\* evictExpiredCookies(nowMilliseconds).
evictExpiredCookies(cookies, now) ==
    LET expired(c) ==
           IF c.maxAge # {} /\ c.created # {}
           THEN \E maxAge \in c.maxAge, created \in c.created :
                   created + maxAge * MillisecondsPerSecond > now
           ELSE \E expires \in c.expires : expires > now
    IN { c \in cookies : ~expired(c) }

\* getRequestCookies: every cookie of the jar.
getRequestCookies(cookies) == cookies

\* A response with Set-Cookie headers arrives.
CookieResponse(setcookies) ==
    /\ setCookieCount + Len(setcookies) <= MaxSetCookies
    /\ httpCookies' = StoreCookies(httpCookies, setcookies, nowMilliseconds)
    /\ setCookieCount' = setCookieCount + Len(setcookies)
    /\ cookieHeader' = [cookieHeader EXCEPT !.setcookies = setcookies]
    /\ UNCHANGED <<nowMilliseconds, signal, CapVars, ReqVars, ClientVars, DownloadVars, CallVars>>

\* request(): expired cookies are evicted, then the Cookie header is built
\* from the jar.
CookieRequest ==
    /\ LET kept == evictExpiredCookies(httpCookies, nowMilliseconds)
       IN /\ httpCookies' = kept
          /\ cookieHeader' = [cookieHeader EXCEPT
                                !.requests = 1,
                                !.at = nowMilliseconds,
                                !.cookies = getRequestCookies(kept)]
    /\ UNCHANGED <<nowMilliseconds, setCookieCount, signal, CapVars, ReqVars, ClientVars, DownloadVars, CallVars>>

\* A second passes.
CookieTick ==
    /\ nowMilliseconds < MaxClock * MillisecondsPerSecond
    /\ nowMilliseconds' = nowMilliseconds + MillisecondsPerSecond
    /\ UNCHANGED <<httpCookies, setCookieCount, cookieHeader, signal, CapVars, ReqVars, ClientVars, DownloadVars, CallVars>>

\* cookieHeader: the Cookie header of the last request (requests is 0
\* before the first one) and the Set-Cookie headers of the last response.
InitCookies ==
    /\ CapIdle
    /\ ReqIdle
    /\ ClientIdle
    /\ DownloadIdle
    /\ signal = FALSE
    /\ httpCookies = {}
    /\ nowMilliseconds = 0
    /\ setCookieCount = 0
    /\ cookieHeader = [requests |-> 0, at |-> 0, cookies |-> {}, setcookies |-> << >>]
    /\ CallIdle

NextCookies ==
    \/ \E h1 \in SetCookieHeaders : CookieResponse(<<h1>>)
    \/ \E h1, h2 \in SetCookieHeaders : CookieResponse(<<h1, h2>>)
    \/ CookieRequest
    \/ CookieTick

SpecCookies == InitCookies /\ [][NextCookies]_vars

(***************************************************************************)
(* The socket timeout of a request (src/unnamed/part_004,                  *)
(* src/src/cs_hub_client.ts).  args: the hub option `timeout` and the      *)
(* request option `timeout`, each a set with at most one element           *)
(* (undefined is {}).  run: the connection's timeout field, the timeout    *)
(* given to http/https, the time the socket has been idle, and the         *)
(* request promise.  A timeout of 0 disables the socket timeout.           *)
(***************************************************************************)
HTTP_DEFAULT_TIMEOUT == 5 * 60 * 1000
Timeouts == {0, 1000, 2000}
Instants == {1000, 2000, HTTP_DEFAULT_TIMEOUT}
OptionalTimeouts == {{}} \cup { {t} : t \in Timeouts }

IdleTimeoutRun ==
    [ pc |-> "idle", connTimeout |-> 0, httpTimeout |-> 0, idle |-> 0,
      destroyed |-> FALSE, promise |-> "none", error |-> NONE ]

\* getHttpClientConnection copies the hub option into the connection
\* options; the HTTPClientConnection constructor sets this.timeout.
ConnectionTimeout(connectionOptionsTimeout) == HTTP_DEFAULT_TIMEOUT

TimeoutConnect ==
    /\ run.pc = "idle"
    /\ LET httpOptionsTimeout == args.hubTimeout
       IN run' = [run EXCEPT !.pc = "connected",
                            !.connTimeout = ConnectionTimeout(httpOptionsTimeout)]
    /\ UNCHANGED <<args, signal, CapVars, ReqVars, ClientVars, DownloadVars, CookieVars>>

\* request(): httpOptions.timeout is this.timeout unless options.timeout
\* is defined.
TimeoutRequest ==
    /\ run.pc = "connected"
    /\ run' = [run EXCEPT
                 !.pc = "flight", !.promise = "pending",
                 !.httpTimeout =
                    IF args.requestTimeout # {}
                    THEN CHOOSE t \in args.requestTimeout : TRUE
                    ELSE run.connTimeout]
    /\ UNCHANGED <<args, signal, CapVars, ReqVars, ClientVars, DownloadVars, CookieVars>>

\* The socket stays idle until instant t; it cannot stay idle beyond its
\* timeout without the 'timeout' event.
TimeoutIdle(t) ==
    /\ run.pc = "flight"
    /\ t > run.idle
    /\ run.httpTimeout = 0 \/ t <= run.httpTimeout
    /\ run' = [run EXCEPT !.idle = t]
    /\ UNCHANGED <<args, signal, CapVars, ReqVars, ClientVars, DownloadVars, CookieVars>>

\* requestObject 'timeout': the request is destroyed with the timeout
\* error, which the 'error' listener passes to reject.
TimeoutEvent ==
    /\ run.pc = "flight"
    /\ run.httpTimeout # 0
    /\ run.idle = run.httpTimeout
    /\ run' = [run EXCEPT !.pc = "closed", !.destroyed = TRUE,
                          !.promise = "rejected",
                          !.error = "Network connection timed-out."]
    /\ UNCHANGED <<args, signal, CapVars, ReqVars, ClientVars, DownloadVars, CookieVars>>

\* The response arrives before the timeout.
TimeoutResponse ==
    /\ run.pc = "flight"
    /\ run.httpTimeout = 0 \/ run.idle < run.httpTimeout
    /\ run' = [run EXCEPT !.pc = "closed", !.promise = "resolved"]
    /\ UNCHANGED <<args, signal, CapVars, ReqVars, ClientVars, DownloadVars, CookieVars>>

InitTimeout ==
    /\ CapIdle
    /\ ReqIdle
    /\ ClientIdle
    /\ DownloadIdle
    /\ CookieIdle
    /\ signal = FALSE
    /\ args \in [ hubTimeout : OptionalTimeouts, requestTimeout : OptionalTimeouts ]
    /\ run = IdleTimeoutRun

NextTimeout ==
    \/ TimeoutConnect
    \/ TimeoutRequest
    \/ \E t \in Instants : TimeoutIdle(t)
    \/ TimeoutEvent
    \/ TimeoutResponse

SpecTimeout == InitTimeout /\ [][NextTimeout]_vars

(***************************************************************************)
(* Record IDs (src/src/csonar_ex.ts).  An integer is the sequence of its   *)
(* decimal digits, most significant first, without leading zeros; a        *)
(* string is the sequence of its characters.  A number is a double: the    *)
(* integers up to 2^53 are all doubles, and between 2^53 and 2^54 the      *)
(* doubles are the even integers.                                          *)
(***************************************************************************)
DigitChars == <<"0", "1", "2", "3", "4", "5", "6", "7", "8", "9">>

\* 2**53 - 1
MAX_CSHUB_RECORD_ID_NUMBER == <<9, 0, 0, 7, 1, 9, 9, 2, 5, 4, 7, 4, 0, 9, 9, 1>>

\* a > b, for integers as digit sequences.
Greater(a, b) ==
    \/ Len(a) > Len(b)
    \/ /\ Len(a) = Len(b)
       /\ \E i \in 1..Len(a) :
             a[i] > b[i] /\ \A j \in 1..(i-1) : a[j] = b[j]

RECURSIVE Increment(_)
Increment(n) ==
    IF n = << >> THEN <<1>>
    ELSE LET front == SubSeq(n, 1, Len(n) - 1)
         IN IF n[Len(n)] < 9 THEN Append(front, n[Len(n)] + 1)
            ELSE Append(Increment(front), 0)

RECURSIVE Decrement(_)
Decrement(n) ==
    LET front == SubSeq(n, 1, Len(n) - 1)
    IN IF n[Len(n)] > 0
       THEN IF n = <<1>> THEN <<0>> ELSE Append(front, n[Len(n)] - 1)
       ELSE Append(Decrement(front), 9)

\* n modulo 4, from the last two digits.
Mod4(n) ==
    ((IF Len(n) > 1 THEN 10 * n[Len(n) - 1] ELSE 0) + n[Len(n)]) % 4

\* The double that JSON.parse (or a literal of the source) gives for the
\* integer n < 2^54: n itself up to 2^53; above, the nearest even integer,
\* a tie going to the one with an even significand (a multiple of 4).
ToNumber(n) ==
    IF ~Greater(n, Increment(MAX_CSHUB_RECORD_ID_NUMBER)) THEN n
    ELSE IF n[Len(n)] % 2 = 0 THEN n
    ELSE IF Mod4(Increment(n)) = 0 THEN Increment(n) ELSE Decrement(n)

\* Number.prototype.toString and BigInt.prototype.toString on an integer
\* below 10^21: its decimal digits.
IntegerToString(n) == [ i \in 1..Len(n) |-> DigitChars[n[i] + 1] ]

\* The integers 9007199254740900 + low, low in 0..99, and some small ones.
IdLiterals ==
    { SubSeq(MAX_CSHUB_RECORD_ID_NUMBER, 1, 14) \o <<d1, d2>> :
        d1 \in {8, 9}, d2 \in 0..9 }
    \cup { <<0>>, <<1>>, <<4, 2>>, <<9, 9>>, <<1, 0, 0>> }

IdStrings ==
    { IntegerToString(n) : n \in IdLiterals }
    \cup { <<"0", "0", "7">>, <<"p", "1">>, << >> }

\* The arguments: a number (the double for the integer `text` of the
\* hub's JSON), a bigint, a string.
RecordIdArgs ==
    { [type |-> "number", number |-> ToNumber(n), string |-> << >>, text |-> n] :
        n \in IdLiterals }
    \cup { [type |-> "bigint", number |-> n, string |-> << >>, text |-> n] :
             n \in IdLiterals }
    \cup { [type |-> "string", number |-> << >>, string |-> s, text |-> << >>] :
             s \in IdStrings }

\* parseCSHubRecordId(recordId): "throw" or the returned string.
parseCSHubRecordIdUnchecked(recordId) ==
    [ thrown |-> FALSE,
      value |-> IF recordId.type = "string" THEN recordId.string
                ELSE IntegerToString(recordId.number) ]
parseCSHubRecordId(recordId) ==
    IF recordId.type = "number"
       /\ Greater(recordId.number, MAX_CSHUB_RECORD_ID_NUMBER)
    THEN [ thrown |-> TRUE, value |-> << >> ]
    ELSE [ thrown |-> FALSE,
           value |-> IF recordId.type = "string" THEN recordId.string
                     ELSE IntegerToString(recordId.number) ]

parseCSProjectId(projectId) == parseCSHubRecordId(projectId)
parseCSAnalysisId(analysisId) == parseCSHubRecordId(analysisId)

RecordIdCall ==
    /\ run.pc = "idle"
    /\ run' = [ pc |-> "returned",
                result |-> IF args.function = "parseCSProjectId"
                           THEN parseCSProjectId(args.recordId)
                           ELSE parseCSAnalysisId(args.recordId) ]
    /\ UNCHANGED <<args, signal, CapVars, ReqVars, ClientVars, DownloadVars, CookieVars>>

InitRecordId ==
    /\ CapIdle
    /\ ReqIdle
    /\ ClientIdle
    /\ DownloadIdle
    /\ CookieIdle
    /\ signal = FALSE
    /\ args \in [ function : {"parseCSProjectId", "parseCSAnalysisId"},
                  recordId : RecordIdArgs ]
    /\ run = [ pc |-> "idle", result |-> [thrown |-> FALSE, value |-> << >>] ]

NextRecordId == RecordIdCall

SpecRecordId == InitRecordId /\ [][NextRecordId]_vars

(***************************************************************************)
(* CSHubClient.createHubRequestError (src/src/cs_hub_client.ts).  A text   *)
(* is the sequence of its pieces (tags, whitespace, JSON tokens, words);   *)
(* the empty sequence is the empty string.                                 *)
(***************************************************************************)
ErrorBodies ==
    { <<"<!DOCTYPE", " html>", "<html>", "Not Found", "</html>">>,
      <<"<!doctype", " html>", "<html>", "Not Found", "</html>">>,
      <<"<html>", "Not Found", "</html>">>,
      <<"\n", "<!DOCTYPE", " html>", "<html>", "Not Found", "</html>">>,
      <<"{", "\"error\":", "\"No such project\"", "}">>,
      <<" ", "{", "\"error\":", "\"No such project\"", "}", "\n">>,
      <<"{", "\"error\":", "\"\"", "}">>,
      <<"{", "\"error\":", "\"No such project\"">>,
      <<"{", "}">>,
      <<"null">>,
      <<"Permission denied">>,
      << >> }

ErrorFormats == {UNDEFINED, "text", "json", "html"}

JsonWhitespace == {" ", "\n"}

\* responseText.startsWith(prefix), for a prefix that is one piece.
startsWith(text, prefix) == text # << >> /\ text[1] = prefix

\* The content of a JSON string token.
JsonString(token) ==
    CASE token = "\"No such project\"" -> {<<"No such project">>}
      [] token = "\"\"" -> {<< >>}
      [] OTHER -> {}

\* JSON.parse(text) followed by the read of .error: a SyntaxError, a
\* TypeError (the value is null), or the value of the field, {} when the
\* object has none.
JsonError(text) ==
    LET tokens == SelectSeq(text, LAMBDA t : t \notin JsonWhitespace)
    IN IF tokens = <<"{", "}">> THEN [thrown |-> NONE, error |-> {}]
       ELSE IF tokens = <<"null">> THEN [thrown |-> "TypeError", error |-> {}]
       ELSE IF Len(tokens) = 4 /\ tokens[1] = "{" /\ tokens[2] = "\"error\":"
               /\ JsonString(tokens[3]) # {} /\ tokens[4] = "}"
       THEN [thrown |-> NONE, error |-> JsonString(tokens[3])]
       ELSE [thrown |-> "SyntaxError", error |-> {}]

\* new CSHubRequestError(statusMessage, code, hubMessage)
NewCSHubRequestError(statusMessage, code, hubMessage) ==
    [ name |-> "CSHubRequestError", code |-> code,
      message |-> IF hubMessage # << >> THEN hubMessage ELSE statusMessage,
      statusMessage |-> statusMessage, hubMessage |-> hubMessage,
      bodyDestroyed |-> FALSE ]

\* resp.status, an HTTPStatusError.
RespStatus(resp, bodyDestroyed) ==
    [ name |-> "HTTPStatusError", code |-> resp.code,
      message |-> resp.statusMessage,
      statusMessage |-> resp.statusMessage, hubMessage |-> << >>,
      bodyDestroyed |-> bodyDestroyed ]

\* createHubRequestError, on the text of the body.
createHubRequestErrorOfText(resp, errorFormat) ==
    IF errorFormat \in {UNDEFINED, "text", "json"}
    THEN LET responseText == resp.body
         IN IF startsWith(responseText, "<!DOCTYPE")
            THEN RespStatus(resp, FALSE)
            ELSE LET respError ==
                        IF errorFormat \in {UNDEFINED, "json"}
                        THEN JsonError(responseText)
                        ELSE [thrown |-> NONE, error |-> {}]
                     errorMessage ==
                        IF \E m \in respError.error : m # << >>
                        THEN CHOOSE m \in respError.error : TRUE
                        ELSE responseText
                 IN NewCSHubRequestError(resp.statusMessage, resp.code, errorMessage)
    ELSE RespStatus(resp, TRUE)

HubErrorCall ==
    /\ run.pc = "idle"
    /\ run' = [ pc |-> "returned",
                error |-> createHubRequestErrorOfText(args.resp, args.errorFormat) ]
    /\ UNCHANGED <<args, signal, CapVars, ReqVars, ClientVars, DownloadVars, CookieVars>>

InitHubError ==
    /\ CapIdle
    /\ ReqIdle
    /\ ClientIdle
    /\ DownloadIdle
    /\ CookieIdle
    /\ signal = FALSE
    /\ args \in [ resp : [ code : {HTTP_FORBIDDEN, HTTP_NOT_FOUND},
                           statusMessage : {<<"Forbidden">>, <<"Not Found">>},
                           body : ErrorBodies ],
                  errorFormat : ErrorFormats ]
    /\ run = [ pc |-> "idle", error |-> NONE ]

NextHubError == HubErrorCall

SpecHubError == InitHubError /\ [][NextHubError]_vars

(***************************************************************************)
(* CSHubAddress (src/src/csonar_ex.ts).  An address string is the sequence *)
(* of its pieces: an optional scheme and "://", the host, an optional ":"  *)
(* and port, an optional "/".  An optional field is a set with at most one *)
(* element.                                                                *)
(***************************************************************************)
AddressStrings ==
    { scheme \o <<host>> \o port \o slash :
        scheme \in {<< >>} \cup { <<s, "://">> : s \in {"http", "https", "HTTP", "Https"} },
        host \in {"hub", "Hub"},
        port \in {<< >>} \cup { <<":", p>> : p \in {"80", "443", "7340"} },
        slash \in {<< >>, <<"/">>} }
    \ { a \in Seq({"hub", "Hub", ":", "80", "443", "7340", "/"}) :
          a # << >> /\ a[Len(a)] = "/" }

\* Address strings that miss a host or have a port that is no number.
MalformedAddressStrings ==
    { scheme \o rest :
        scheme \in {<< >>, <<"http", "://">>, <<"HTTPS", "://">>},
        rest \in { << >>, <<":", "7340">>, <<"hub", ":", "abc">>, <<"hub", ":">> } }

\* Whether new URL(s) accepts the http or https URL s: it throws a
\* TypeError without a host or with a port that is not a number.
URLIsValid(s) ==
    /\ Len(s) >= 3
    /\ s[3] \notin {":", "/"}
    /\ (Len(s) >= 5 /\ s[4] = ":") => parseInt(s[5]) # {}

\* new URL(s) for an http or https URL s: protocol with its colon, host in
\* lower case, port "" when absent or the scheme's default.
URLOfString(s) ==
    LET scheme == toLowerCase(s[1])
        portString == IF Len(s) >= 5 /\ s[4] = ":" THEN s[5] ELSE ""
    IN [ protocol |-> IF scheme = HTTPS_PROTOCOL THEN "https:" ELSE "http:",
         hostname |-> toLowerCase(s[3]),
         port |-> IF portString = DefaultPortString(scheme) THEN "" ELSE portString ]

\* new CSHubAddress(hubAddressString).  port is {} when the field is
\* undefined or NaN, portIsNaN tells the two apart; error is what the
\* constructor throws, NONE when it returns.
CSHubAddress(hubAddressString) ==
    LET s == hubAddressString
        addressIsUrl ==
           /\ Len(s) >= 2
           /\ toLowerCase(s[1]) \in {HTTP_PROTOCOL, HTTPS_PROTOCOL}
           /\ s[2] = "://"
        I == { i \in 1..Len(s) : s[i] = ":" }
        pos == IF I = {} THEN 0 ELSE CHOOSE i \in I : \A j \in I : i <= j
        portString == SubSeq(s, pos + 1, Len(s))
    IN IF addressIsUrl /\ ~URLIsValid(s)
       THEN [ hubAddressString |-> s, protocol |-> {}, hostname |-> << >>, port |-> {},
              portIsNaN |-> FALSE, error |-> "TypeError" ]
       ELSE IF addressIsUrl
       THEN LET hubUrl == URLOfString(s)
            IN [ hubAddressString |-> s,
                 protocol |-> {hubUrl.protocol},
                 hostname |-> <<hubUrl.hostname>>,
                 port |-> IF hubUrl.port # "" THEN parseInt(hubUrl.port) ELSE {},
                 portIsNaN |-> FALSE, error |-> NONE ]
       ELSE IF pos = 0
       THEN [ hubAddressString |-> s, protocol |-> {}, hostname |-> s, port |-> {},
              portIsNaN |-> FALSE, error |-> NONE ]
       ELSE [ hubAddressString |-> s, protocol |-> {},
              hostname |-> SubSeq(s, 1, pos - 1),
              port |-> IF portString = << >> THEN {} ELSE parseInt(portString[1]),
              portIsNaN |-> (portString = << >> \/ parseInt(portString[1]) = {}),
              error |-> NONE ]

\* formatUserHubAddress(hubAddress, hubUserName), as a sequence of pieces.
formatUserHubAddress(hubAddress, hubUserName) ==
    LET userHost == <<hubUserName, "@">> \o hubAddress.hostname
        withProtocol ==
           IF hubAddress.protocol # {}
           THEN <<CHOOSE p \in hubAddress.protocol : TRUE, "://">> \o userHost
           ELSE userHost
    IN IF hubAddress.port # {}
       THEN withProtocol \o <<":", CHOOSE n \in hubAddress.port : TRUE>>
       ELSE withProtocol

AddressParse ==
    /\ run.pc = "idle"
    /\ LET hubAddress == CSHubAddress(args)
       IN run' = [run EXCEPT !.pc = IF hubAddress.error = NONE THEN "parsed" ELSE "thrown",
                             !.hubAddress = hubAddress]
    /\ UNCHANGED <<args, signal, CapVars, ReqVars, ClientVars, DownloadVars, CookieVars>>

\* toString() and a second parse of what it returns.
AddressToString ==
    /\ run.pc = "parsed"
    /\ run' = [run EXCEPT !.pc = "reparsed",
                          !.reparsed = CSHubAddress(run.hubAddress.hubAddressString)]
    /\ UNCHANGED <<args, signal, CapVars, ReqVars, ClientVars, DownloadVars, CookieVars>>

AddressFormat ==
    /\ run.pc = "reparsed"
    /\ run' = [run EXCEPT !.pc = "formatted",
                          !.key = formatUserHubAddress(run.hubAddress, "user")]
    /\ UNCHANGED <<args, signal, CapVars, ReqVars, ClientVars, DownloadVars, CookieVars>>

NoAddress ==
    [ hubAddressString |-> << >>, protocol |-> {}, hostname |-> << >>, port |-> {},
      portIsNaN |-> FALSE, error |-> NONE ]

InitAddress ==
    /\ CapIdle
    /\ ReqIdle
    /\ ClientIdle
    /\ DownloadIdle
    /\ CookieIdle
    /\ signal = FALSE
    /\ args \in AddressStrings
    /\ run = [ pc |-> "idle", hubAddress |-> NoAddress, reparsed |-> NoAddress,
               key |-> << >> ]

NextAddress == AddressParse \/ AddressToString \/ AddressFormat

SpecAddress == InitAddress /\ [][NextAddress]_vars

\* SpecAddressInput: the constructor on every address string, the
\* malformed ones included.
InitAddressInput ==
    /\ CapIdle
    /\ ReqIdle
    /\ ClientIdle
    /\ DownloadIdle
    /\ CookieIdle
    /\ signal = FALSE
    /\ args \in AddressStrings \cup MalformedAddressStrings
    /\ run = [ pc |-> "idle", hubAddress |-> NoAddress, reparsed |-> NoAddress,
               key |-> << >> ]

NextAddressInput == AddressParse \/ AddressToString

SpecAddressInput == InitAddressInput /\ [][NextAddressInput]_vars

(***************************************************************************)
(* encodeCSSearchStringLiteral (cs_hub_client.ts).  A string is the        *)
(* sequence of its UTF-16 code units; "a" stands for any code unit that is *)
(* not a backslash, a double quote or an apostrophe.                       *)
(***************************************************************************)
MaxLiteralLen == 3

QUOTE == "\""
APOS == "'"
ESC == "\\"
QUOTE_ESC == <<ESC, QUOTE>>
APOS_ESC == <<ESC, APOS>>
ESC_ESC == <<ESC, ESC>>

CharUnits == {ESC, QUOTE, APOS, "a"}

SearchStrings == UNION { [1..n -> CharUnits] : n \in 0..MaxLiteralLen }

RECURSIVE JoinUnits(_)
JoinUnits(charUnits) ==
    IF charUnits = << >> THEN << >>
    ELSE Head(charUnits) \o JoinUnits(Tail(charUnits))

encodeCSSearchStringLiteralQuotesOnly(s) ==
    LET unit(i) == IF s[i] = ESC THEN ESC_ESC
                   ELSE IF s[i] = QUOTE THEN QUOTE_ESC
                   ELSE <<s[i]>>
    IN <<QUOTE>> \o JoinUnits([i \in 1..Len(s) |-> unit(i)]) \o <<QUOTE>>

encodeCSSearchStringLiteral(s) ==
    LET unit(i) == IF s[i] = ESC THEN ESC_ESC
                   ELSE IF s[i] = QUOTE THEN QUOTE_ESC
                   ELSE IF s[i] = APOS THEN APOS_ESC
                   ELSE <<s[i]>>
    IN <<QUOTE>> \o JoinUnits([i \in 1..Len(s) |-> unit(i)]) \o <<QUOTE>>

\* fetchProjectInfo encodes the project name it searches for.
LiteralEncode ==
    /\ run.pc = "idle"
    /\ run' = [run EXCEPT !.pc = "encoded",
                          !.literal = encodeCSSearchStringLiteral(args)]
    /\ UNCHANGED <<args, signal, CapVars, ReqVars, ClientVars, DownloadVars, CookieVars>>

\* The query is built from the literal and the call returns.
LiteralReturn ==
    /\ run.pc = "encoded"
    /\ run' = [run EXCEPT !.pc = "done"]
    /\ UNCHANGED <<args, signal, CapVars, ReqVars, ClientVars, DownloadVars, CookieVars>>

InitLiteral ==
    /\ CapIdle
    /\ ReqIdle
    /\ ClientIdle
    /\ DownloadIdle
    /\ CookieIdle
    /\ signal = FALSE
    /\ args \in SearchStrings
    /\ run = [ pc |-> "idle", literal |-> << >> ]

NextLiteral == LiteralEncode \/ LiteralReturn

SpecLiteral == InitLiteral /\ [][NextLiteral]_vars

(***************************************************************************)
(* The sign-in form of a hub without the modern API (signIn of             *)
(* cs_hub_client.ts, encodeURIQuery of the HTTP client).  A string is a    *)
(* sequence of pieces: a form field name or "1" is one piece, a user name  *)
(* or password is a sequence of characters.                                *)
(***************************************************************************)
MaxCredentialLen == 2

URL_SEARCH_ITEM_SEP == "&"
URL_SEARCH_KEY_SEP == "="
RESPONSE_TRY_PLAINTEXT == "response_try_plaintext"
CS_HUB_PARAM_TRUE == "1"

CredentialChars == {"a", "&", "=", "+", "%", " "}

Credentials(minLen) ==
    UNION { [1..n -> CredentialChars] : n \in minLen..MaxCredentialLen }

\* queryObject is the sequence of the object's own properties in the order
\* of their creation, each a name k and a string value v.
RECURSIVE encodeURIQuery(_)
encodeURIQuery(queryObject) ==
    IF queryObject = << >> THEN << >>
    ELSE <<Head(queryObject).k, URL_SEARCH_KEY_SEP>> \o Head(queryObject).v
            \o (IF Len(queryObject) > 1 THEN <<URL_SEARCH_ITEM_SEP>> ELSE << >>)
            \o encodeURIQuery(Tail(queryObject))

signInUrlPath700 ==
    <<"/", "?", RESPONSE_TRY_PLAINTEXT, URL_SEARCH_KEY_SEP, CS_HUB_PARAM_TRUE>>

CSHub700SignInForm(isCertificateAuth, hubuser, password) ==
    << [k |-> "sif_sign_in", v |-> <<CS_HUB_PARAM_TRUE>>],
       [k |-> "sif_ignore_empty_email", v |-> <<CS_HUB_PARAM_TRUE>>],
       [k |-> "sif_log_out_competitor", v |-> <<CS_HUB_PARAM_TRUE>>],
       [k |-> RESPONSE_TRY_PLAINTEXT, v |-> <<CS_HUB_PARAM_TRUE>>] >>
    \o (IF isCertificateAuth
        THEN << [k |-> "sif_use_tls", v |-> <<CS_HUB_PARAM_TRUE>>] >>
        ELSE << [k |-> "sif_username", v |-> hubuser],
                [k |-> "sif_password", v |-> password] >>)

\* signIn on a hub without the modern API, after the capabilities and the
\* password are known: the path and the form data are built.
LegacySignInForm ==
    /\ run.pc = "idle"
    /\ run' = [run EXCEPT !.pc = "form",
                          !.signInUrlPath = signInUrlPath700,
                          !.signInData = encodeURIQuery(
                              CSHub700SignInForm(args.isCertificateAuth,
                                                 args.hubuser, args.password))]
    /\ UNCHANGED <<args, signal, CapVars, ReqVars, ClientVars, DownloadVars, CookieVars>>

\* this.post(signInUrlPath, signInData, httpOptions): the data is the body
\* of a POST request for the path.
LegacySignInPost ==
    /\ run.pc = "form"
    /\ run' = [run EXCEPT !.pc = "posted",
                          !.method = "POST",
                          !.resource = run.signInUrlPath,
                          !.data = run.signInData]
    /\ UNCHANGED <<args, signal, CapVars, ReqVars, ClientVars, DownloadVars, CookieVars>>

InitLegacySignIn ==
    /\ CapIdle
    /\ ReqIdle
    /\ ClientIdle
    /\ DownloadIdle
    /\ CookieIdle
    /\ signal = FALSE
    /\ args \in [ isCertificateAuth : {FALSE}, hubuser : Credentials(1),
                  password : Credentials(0) ]
                \cup [ isCertificateAuth : {TRUE}, hubuser : {<< >>},
                       password : {<< >>} ]
    /\ run = [ pc |-> "idle", signInUrlPath |-> << >>, signInData |-> << >>,
               method |-> "", resource |-> << >>, data |-> << >> ]

NextLegacySignIn == LegacySignInForm \/ LegacySignInPost

SpecLegacySignIn == InitLegacySignIn /\ [][NextLegacySignIn]_vars

(***************************************************************************)
(* The body of a request (HTTPClientConnection.request).  A string is a    *)
(* sequence of characters, "a" of one UTF-8 byte and "eacute" (U+00E9) of  *)
(* two; a Buffer is a sequence of bytes.  The request follows same-origin  *)
(* redirects.                                                              *)
(***************************************************************************)
MaxBodyLen == 2
MaxBodyRedirects == 2

BodyChars == {"a", "eacute"}

BufferEncodings == {"utf8", "latin1", "utf16le"}

\* Buffer.from(data, dataEncoding) of a string.
RECURSIVE BufferFrom(_, _)
BufferFrom(data, dataEncoding) ==
    IF data = << >> THEN << >>
    ELSE (CASE dataEncoding = "utf8" ->
                  IF Head(data) = "a" THEN <<"61">> ELSE <<"c3", "a9">>
            [] dataEncoding = "latin1" ->
                  IF Head(data) = "a" THEN <<"61">> ELSE <<"e9">>
            [] dataEncoding = "utf16le" ->
                  IF Head(data) = "a" THEN <<"61", "00">> ELSE <<"e9", "00">>)
         \o BufferFrom(Tail(data), dataEncoding)

\* The data argument of request(): none, a string or a Buffer.
BodyData ==
    { [type |-> "undefined", units |-> << >>] }
    \cup [ type : {"string"}, units : UNION { [1..n -> BodyChars] : n \in 0..MaxBodyLen } ]
    \cup [ type : {"object"}, units : UNION { [1..n -> {"61"}] : n \in 0..MaxBodyLen } ]

\* The options argument: the method, the headers (here whether a
\* Content-Type is given) and the data encoding, each optional.
BodyOptions ==
    [ method : {{}, {"POST"}}, headers : {{}, {"content-type"}},
      dataEncoding : {{}} \cup { {e} : e \in BufferEncodings } ]

\* dataBuffer, a set with the Buffer or the empty set for undefined.
dataBufferOf(data, options) ==
    LET dataEncoding == IF options.dataEncoding = {} THEN "utf8"
                        ELSE CHOOSE e \in options.dataEncoding : TRUE
    IN IF data.type = "string" THEN {BufferFrom(data.units, dataEncoding)}
       ELSE IF data.type = "object" THEN {data.units}
       ELSE {}

\* httpOptions.headers: the names given, and the content-length, a set with
\* the number or the empty set.
requestHeadersUnsized(options, dataBuffer) ==
    [ names |-> options.headers, contentLength |-> {} ]

requestHeaders(options, dataBuffer) ==
    [ names |-> options.headers \cup (IF dataBuffer # {} THEN {"content-length"} ELSE {}),
      contentLength |-> { Len(b) : b \in dataBuffer } ]

\* request(resource, options, data) up to requestObject.end(): what http
\* sends.  Without a content-length header, http sends what is written in
\* chunks.
outgoingRequest(options, data) ==
    LET dataBuffer == dataBufferOf(data, options)
        headers == requestHeaders(options, dataBuffer)
    IN [ method |-> IF options.method = {} THEN "GET" ELSE "POST",
         headers |-> headers,
         written |-> dataBuffer,
         chunked |-> dataBuffer # {} /\ headers.contentLength = {} ]

BodyRequest ==
    /\ run.pc = "idle"
    /\ run' = [run EXCEPT !.pc = "sent",
                          !.sent = Append(run.sent, outgoingRequest(args.options, args.data))]
    /\ UNCHANGED <<args, signal, CapVars, ReqVars, ClientVars, DownloadVars, CookieVars>>

\* A 301 with a Location of the same origin: request(redirectTargetUrl,
\* options, data) is called.
BodyRedirect ==
    /\ run.pc = "sent"
    /\ Len(run.sent) <= MaxBodyRedirects
    /\ run' = [run EXCEPT !.sent = Append(run.sent, outgoingRequest(args.options, args.data))]
    /\ UNCHANGED <<args, signal, CapVars, ReqVars, ClientVars, DownloadVars, CookieVars>>

\* Any other response resolves the promise.
BodyResponse ==
    /\ run.pc = "sent"
    /\ run' = [run EXCEPT !.pc = "resolved"]
    /\ UNCHANGED <<args, signal, CapVars, ReqVars, ClientVars, DownloadVars, CookieVars>>

InitBody ==
    /\ CapIdle
    /\ ReqIdle
    /\ ClientIdle
    /\ DownloadIdle
    /\ CookieIdle
    /\ signal = FALSE
    /\ args \in [ data : BodyData, options : BodyOptions ]
    /\ run = [ pc |-> "idle", sent |-> << >> ]

NextBody == BodyRequest \/ BodyRedirect \/ BodyResponse

SpecBody == InitBody /\ [][NextBody]_vars

(***************************************************************************)
(* fetchProjectInfo and fetchAnalysisInfo (cs_hub_client.ts): the          *)
(* capability check, the list request, and parseResponseJson reading the   *)
(* body.  args is the call (which function, whether the client has the     *)
(* hub's version answer cached, whether a cancellation handle is given),   *)
(* run the state of the call: registered is whether the callback of the    *)
(* handle is registered on a live request, aborted whether that request    *)
(* was destroyed after its response had arrived, chunks the 'data' events  *)
(* parseResponseJson has seen.                                             *)
(***************************************************************************)
FetchJsonKinds == {"fetchProjectInfo", "fetchAnalysisInfo"}

IdleFetchJson ==
    [ pc |-> "idle", registered |-> FALSE, aborted |-> FALSE, chunks |-> 0,
      cancelledAt |-> NONE, promise |-> NONE, value |-> NONE ]

FetchJsonSettle(q, promise, value) ==
    [q EXCEPT !.pc = "done", !.registered = FALSE, !.promise = promise, !.value = value]

\* fetchJson(path, options): fetch() hands the list request to the
\* connection with options.cancellationSignal, and requestCallback
\* registers the callback of the handle.
FetchJsonSendList(q) ==
    [q EXCEPT !.pc = "list_flight", !.registered = args.hasSignal]

\* The callback of the handle: requestObject.destroy(e) with
\* createCancellationError().  A request whose promise is pending rejects
\* with e; after the response has arrived the response stream is aborted.
FetchJsonDestroy(q) ==
    IF q.pc = "list_flight" THEN FetchJsonSettle(q, "rejected", "cancelled")
    ELSE [q EXCEPT !.aborted = TRUE, !.registered = FALSE]

\* A callback registered on a triggered handle is called from a timer,
\* before any event of the request.
FetchJsonReplayPending == signal /\ run.registered

\* The function is called: await this.getHubCapabilityInfo(), which passes
\* no options on; with the answer cached the list request follows at once.
FetchJsonStart ==
    /\ run.pc = "idle"
    /\ run' = IF args.cached
              THEN FetchJsonSendList([run EXCEPT !.promise = "pending"])
              ELSE [run EXCEPT !.pc = "cv_flight", !.promise = "pending"]
    /\ UNCHANGED <<args, signal, CapVars, ReqVars, ClientVars, DownloadVars, CookieVars>>

\* The check_version request settles.
FetchJsonCapability(ok) ==
    /\ run.pc = "cv_flight"
    /\ run' = IF ok THEN FetchJsonSendList(run)
              ELSE FetchJsonSettle(run, "rejected", ECONNRESET_CODE)
    /\ UNCHANGED <<args, signal, CapVars, ReqVars, ClientVars, DownloadVars, CookieVars>>

\* The list request settles: an error, or the headers of a response.  A
\* 200 response goes to parseResponseJson, another one to
\* createHubRequestError, which reads the body too.
FetchJsonResponse(out) ==
    /\ run.pc = "list_flight"
    /\ ~FetchJsonReplayPending
    /\ run' = IF out.error # NONE THEN FetchJsonSettle(run, "rejected", out.error)
              ELSE IF out.status = HTTP_OK THEN [run EXCEPT !.pc = "body"]
              ELSE [run EXCEPT !.pc = "error_body"]
    /\ UNCHANGED <<args, signal, CapVars, ReqVars, ClientVars, DownloadVars, CookieVars>>

\* 'data' of the response stream.
FetchJsonChunk ==
    /\ run.pc \in {"body", "error_body"}
    /\ ~run.aborted
    /\ run.chunks < MaxChunks
    /\ run' = [run EXCEPT !.chunks = run.chunks + 1]
    /\ UNCHANGED <<args, signal, CapVars, ReqVars, ClientVars, DownloadVars, CookieVars>>

\* 'end' of the response stream: JSON.parse of the text, or the error made
\* from the text of an error response.
FetchJsonEnd(valid) ==
    /\ run.pc \in {"body", "error_body"}
    /\ ~run.aborted
    /\ run' = IF run.pc = "error_body"
              THEN FetchJsonSettle(run, "rejected", "CSHubRequestError")
              ELSE IF valid THEN FetchJsonSettle(run, "resolved", "rows")
              ELSE FetchJsonSettle(run, "rejected", "SyntaxError")
    /\ UNCHANGED <<args, signal, CapVars, ReqVars, ClientVars, DownloadVars, CookieVars>>

\* 'error' of the response stream: the connection was reset.
FetchJsonStreamError ==
    /\ run.pc \in {"body", "error_body"}
    /\ ~run.aborted
    /\ run' = FetchJsonSettle(run, "rejected", ECONNRESET_CODE)
    /\ UNCHANGED <<args, signal, CapVars, ReqVars, ClientVars, DownloadVars, CookieVars>>

\* The response stream of a destroyed request: it emits 'error' with the
\* "aborted" ECONNRESET error when the body was not complete; when all of
\* it had arrived it emits 'end', the 'data' listeners removed, and the
\* text is what was read until then.
FetchJsonAborted(complete, valid) ==
    /\ run.pc \in {"body", "error_body"}
    /\ run.aborted
    /\ run' = IF ~complete THEN FetchJsonSettle(run, "rejected", ECONNRESET_CODE)
              ELSE IF run.pc = "error_body"
              THEN FetchJsonSettle(run, "rejected", "CSHubRequestError")
              ELSE IF valid /\ run.chunks > 0 THEN FetchJsonSettle(run, "resolved", "rows")
              ELSE FetchJsonSettle(run, "rejected", "SyntaxError")
    /\ UNCHANGED <<args, signal, CapVars, ReqVars, ClientVars, DownloadVars, CookieVars>>

\* The cancellation handle is triggered.
FetchJsonCancel ==
    /\ ~signal
    /\ args.hasSignal
    /\ run.promise = "pending"
    /\ signal' = TRUE
    /\ run' = LET q == [run EXCEPT !.cancelledAt = run.pc]
              IN IF run.registered THEN FetchJsonDestroy(q) ELSE q
    /\ UNCHANGED <<args, CapVars, ReqVars, ClientVars, DownloadVars, CookieVars>>

\* The callback of a request sent after the trigger is called.
FetchJsonCancelReplay ==
    /\ FetchJsonReplayPending
    /\ run' = FetchJsonDestroy(run)
    /\ UNCHANGED <<args, signal, CapVars, ReqVars, ClientVars, DownloadVars, CookieVars>>

InitFetchJson ==
    /\ CapIdle
    /\ ReqIdle
    /\ ClientIdle
    /\ DownloadIdle
    /\ CookieIdle
    /\ signal = FALSE
    /\ args \in [ kind : FetchJsonKinds, cached : BOOLEAN, hasSignal : BOOLEAN ]
    /\ run = IdleFetchJson

NextFetchJson ==
    \/ FetchJsonStart
    \/ \E ok \in BOOLEAN : FetchJsonCapability(ok)
    \/ \E out \in ResourceOutcomes : FetchJsonResponse(out)
    \/ FetchJsonChunk
    \/ \E valid \in BOOLEAN : FetchJsonEnd(valid)
    \/ FetchJsonStreamError
    \/ \E complete \in BOOLEAN, valid \in BOOLEAN : FetchJsonAborted(complete, valid)
    \/ FetchJsonCancel
    \/ FetchJsonCancelReplay

SpecFetchJson == InitFetchJson /\ [][NextFetchJson]_vars

(***************************************************************************)
(* The authentication branch of signIn (cs_hub_client.ts): args is the     *)
(* options of the client (hubuser is whether a non-empty user name is      *)
(* configured) and whether the hub has the modern API; run is the branch   *)
(* taken, the path the sign-in data is posted to ({} when nothing is       *)
(* posted) and whether the connection presents the client certificate.     *)
(***************************************************************************)
AuthenticationMethods == {UNDEFINED, "certificate", "password", "anonymous"}

SignInBranchOptions ==
    { ClientOptionsOf(UNDEFINED, FALSE, auth, hubuser, hubpasswd, hubpwfile, hubkey, FALSE) :
        auth \in AuthenticationMethods, hubuser \in BOOLEAN, hubpasswd \in BOOLEAN,
        hubpwfile \in BOOLEAN, hubkey \in {UNDEFINED, "plain"} }

\* The branch of signIn is entered; a branch whose credential material is
\* missing throws.
SignInBranchSelect ==
    /\ run.pc = "idle"
    /\ LET opt == args.options
           method == SignInMethod(opt)
           missing == \/ method = "certificate" /\ opt.hubkey = UNDEFINED
                      \/ method = "password"
                           /\ (~opt.hubuser \/ ~(opt.hubpasswd \/ opt.hubpwfile))
       IN run' = [run EXCEPT !.pc = IF missing \/ method = NONE THEN "thrown" ELSE "selected",
                             !.branch = method]
    /\ UNCHANGED <<args, signal, CapVars, ReqVars, ClientVars, DownloadVars, CookieVars>>

\* signInUrlPath of the branch, and the connection the data is posted on.
SignInBranchPost ==
    /\ run.pc = "selected"
    /\ run' = [run EXCEPT
                 !.pc = "posted",
                 !.signInUrlPath =
                     IF args.openAPI
                     THEN (CASE run.branch = "certificate" ->
                                  {"/session/create-tls-client-certificate/"}
                             [] run.branch = "password" -> {"/session/create-basic-auth/"}
                             [] OTHER -> {"/session/create-anonymous/"})
                     ELSE IF run.branch = "anonymous" THEN {}
                     ELSE {"/?response_try_plaintext=1"},
                 !.clientCert = KeyLoaded(args.options)]
    /\ UNCHANGED <<args, signal, CapVars, ReqVars, ClientVars, DownloadVars, CookieVars>>

InitSignInBranch ==
    /\ CapIdle
    /\ ReqIdle
    /\ ClientIdle
    /\ DownloadIdle
    /\ CookieIdle
    /\ signal = FALSE
    /\ args \in [ options : SignInBranchOptions, openAPI : BOOLEAN ]
    /\ run = [ pc |-> "idle", branch |-> NONE, signInUrlPath |-> {}, clientCert |-> FALSE ]

NextSignInBranch == SignInBranchSelect \/ SignInBranchPost

SpecSignInBranch == InitSignInBranch /\ [][NextSignInBranch]_vars

(***************************************************************************)
(* Redirect following of HTTPClientConnection.request.  args is the call   *)
(* (the path requested, the method, whether a body and a cancellation      *)
(* handle are given); run is the promise returned and the URL path of the  *)
(* request in flight.  request() keeps no count of the redirects followed. *)
(***************************************************************************)
RedirectPaths == {"/a", "/b", "/c"}

\* request(resource, options, data): the request for the path is sent.
RedirectCall ==
    /\ run.pc = "idle"
    /\ run' = [run EXCEPT !.pc = "flight", !.path = args.path, !.promise = "pending"]
    /\ UNCHANGED <<args, signal, CapVars, ReqVars, ClientVars, DownloadVars, CookieVars>>

\* A 301 whose Location is a path of the same origin: this.request(
\* redirectTargetUrl, options, data) is called and the promise is left to
\* the outcome of the new request.
RedirectFollow(location) ==
    /\ run.pc = "flight"
    /\ run' = [run EXCEPT !.path = location]
    /\ UNCHANGED <<args, signal, CapVars, ReqVars, ClientVars, DownloadVars, CookieVars>>

\* Any other end of the exchange: a response with another status, a 301
\* to another origin (resolved as it is), a 301 without Location or an
\* error of the request (rejected).
RedirectSettle(out) ==
    /\ run.pc = "flight"
    /\ run' = [run EXCEPT !.pc = "done",
                          !.promise = IF out.error = NONE THEN "resolved" ELSE "rejected",
                          !.value = IF out.error = NONE THEN out.status ELSE 0,
                          !.error = out.error]
    /\ UNCHANGED <<args, signal, CapVars, ReqVars, ClientVars, DownloadVars, CookieVars>>

RedirectOutcomes ==
    { Outcome(s, "empty", NONE) : s \in {HTTP_OK, HTTP_MOVED_PERMANENTLY, HTTP_NOT_FOUND} }
    \cup { Outcome(0, NONE, e) : e \in {ECONNRESET_CODE, "missing-location"} }

InitRedirect ==
    /\ CapIdle
    /\ ReqIdle
    /\ ClientIdle
    /\ DownloadIdle
    /\ CookieIdle
    /\ signal = FALSE
    /\ args \in [ path : RedirectPaths, method : {"GET", "POST"},
                  hasData : BOOLEAN, hasSignal : BOOLEAN ]
    /\ run = [ pc |-> "idle", path |-> NONE, promise |-> NONE, value |-> 0,
               error |-> NONE ]

RedirectExchange ==
    \/ \E location \in RedirectPaths : RedirectFollow(location)
    \/ \E out \in RedirectOutcomes : RedirectSettle(out)

NextRedirect == RedirectCall \/ RedirectExchange

SpecRedirect == InitRedirect /\ [][NextRedirect]_vars

\* Each network exchange completes: the request in flight gets its
\* response or its error.
SpecRedirectFair ==
    SpecRedirect /\ WF_vars(RedirectCall) /\ WF_vars(RedirectExchange)

(***************************************************************************)
(* The project search request of fetchProjectInfo (cs_hub_client.ts).  A   *)
(* string is a sequence of pieces: a parameter name, the value of sprjgrid *)
(* or a path is one piece, a search term is a sequence of characters.      *)
(***************************************************************************)
MaxTermLen == 2

PTREE_SEP == "/"

TermChars == {"a", "&", "#", "+", "%", "=", PTREE_SEP, QUOTE}

SearchTerms == UNION { [1..n -> TermChars] : n \in 0..MaxTermLen }

\* projectSearchUrlPath: the path, "?" and the encoded queryParams.  An
\* empty term is no search.
projectSearchUrlPath(searchProject, openAPI) ==
    LET sprjgrid == IF openAPI
                    THEN << [k |-> "sprjgrid", v |-> <<"sprjgrid-json">>] >>
                    ELSE << [k |-> "sprjgrid", v |-> <<"sprjgrid-list">>],
                            [k |-> RESPONSE_TRY_PLAINTEXT, v |-> <<CS_HUB_PARAM_TRUE>>] >>
        projectFieldName ==
            IF \E i \in 1..Len(searchProject) : searchProject[i] = PTREE_SEP
            THEN "ptree_path" ELSE "project"
        query == IF searchProject = << >> THEN << >>
                 ELSE << [k |-> "query",
                          v |-> <<projectFieldName, "=">>
                                   \o encodeCSSearchStringLiteral(searchProject)] >>
    IN <<"/project_search.json", "?">> \o encodeURIQuery(sprjgrid \o query)

\* The path of the request made for a resource path: new URL(resource,
\* baseUrlString) ends the query at the first "#" and percent-encodes the
\* double quotes, apostrophes and spaces of the query; urlToHttpOptions
\* takes pathname + search.
requestPath(resource) ==
    LET hashes == { i \in 1..Len(resource) : resource[i] = "#" }
        end == IF hashes = {} THEN Len(resource)
               ELSE (CHOOSE i \in hashes : \A j \in hashes : i <= j) - 1
        RECURSIVE encode(_)
        encode(s) ==
            IF s = << >> THEN << >>
            ELSE (CASE Head(s) = QUOTE -> <<"%", "2", "2">>
                    [] Head(s) = APOS -> <<"%", "2", "7">>
                    [] Head(s) = " " -> <<"%", "2", "0">>
                    [] OTHER -> <<Head(s)>>) \o encode(Tail(s))
    IN encode(SubSeq(resource, 1, end))

ProjectSearchBuild ==
    /\ run.pc = "idle"
    /\ run' = [run EXCEPT !.pc = "built",
                          !.resource = projectSearchUrlPath(args.searchProject, args.openAPI)]
    /\ UNCHANGED <<args, signal, CapVars, ReqVars, ClientVars, DownloadVars, CookieVars>>

\* fetchJson(projectSearchUrlPath, options): the request is sent.
ProjectSearchSend ==
    /\ run.pc = "built"
    /\ run' = [run EXCEPT !.pc = "sent", !.path = requestPath(run.resource)]
    /\ UNCHANGED <<args, signal, CapVars, ReqVars, ClientVars, DownloadVars, CookieVars>>

InitProjectSearch ==
    /\ CapIdle
    /\ ReqIdle
    /\ ClientIdle
    /\ DownloadIdle
    /\ CookieIdle
    /\ signal = FALSE
    /\ args \in [ searchProject : SearchTerms, openAPI : BOOLEAN ]
    /\ run = [ pc |-> "idle", resource |-> << >>, path |-> << >> ]

NextProjectSearch == ProjectSearchBuild \/ ProjectSearchSend

SpecProjectSearch == InitProjectSearch /\ [][NextProjectSearch]_vars





(***************************************************************************)
(* Claims about HTTPClientConnection.request (SpecRequest).                *)
(***************************************************************************)
\* C3: a call whose target URL has another origin than the connection's is
\* rejected with the origin-mismatch error, and no request for a URL of
\* another origin is handed to http/https.
C3_NoRequestToOtherOrigin ==
    /\ \A r \in ReqIds :
          (reqs[r].pc # "idle" /\ Origin(reqs[r].url) # ConnOrigin(conn))
             => (reqs[r].promise = "rejected" /\ reqs[r].error = "origin-mismatch")
    /\ \A w \in wire : Origin(w.url) = ConnOrigin(conn)

\* C6: a call with a cancellation handle that is triggered while the promise
\* is pending never settles otherwise than rejected with the cancellation
\* error.
C6_CancelWinsWhilePending ==
    \A r \in ReqIds :
       (reqs[r].hasSignal /\ reqs[r].cancelledWhilePending /\ reqs[r].promise # "pending")
          => (reqs[r].promise = "rejected" /\ reqs[r].error = "cancelled")

\* C35: the origin check rejects a call only when the scheme, host or port
\* of its target differs from the connection's, the default port of the
\* scheme being the same port whether written or not; a call for a path of
\* the server is never rejected by it.
C35_OriginCheckExact ==
    \A r \in ReqIds :
       (reqs[r].hops = 0 /\ reqs[r].error = "origin-mismatch")
          => Origin(reqs[r].url) # ConnOrigin(conn)

\* C14: on a connection with a key passphrase callback whose prompts all
\* return a passphrase, the callback is called at most once over any
\* interleaving of the requests, and a request made once the passphrase is
\* cached does not call it.
C14_PassphraseAskedOnce ==
    (\A r \in ReqIds : reqs[r].error # "passphrase-error")
       => /\ conn.passphraseCalls <= 1
          /\ \A r \in ReqIds :
                (reqs[r].pc = "passphrase" /\ reqs[r].askPassphrase)
                   => conn.passphrase = UNDEFINED

\* C20: a 301 whose Location is a path of the connection's own server makes
\* request() issue the request again for that location, with the same body
\* and options, and leaves the promise to the outcome of that request; a
\* 301 whose Location is on another server resolves the promise with the
\* 301 response and sends nothing; a request object is created only once
\* the previous one of the chain has been answered.
C20_RedirectStep ==
    \A r \in ReqIds :
       LET q == reqs[r]
           q2 == reqs'[r]
           answered == q2.responses = q.responses + 1
       IN /\ (answered /\ q2.lastStatus = HTTP_MOVED_PERMANENTLY
                /\ q2.lastLocation = "same")
                => /\ q2.pc = "passphrase" /\ q2.hops = q.hops + 1
                   /\ q2.url = NewURL(conn.protocol, conn.hostname, conn.portString, "/x")
                   /\ q2.hasData = q.hasData /\ q2.hasSignal = q.hasSignal
                   /\ q2.promise = q.promise
                   /\ wire' = wire
          /\ (answered /\ q2.lastStatus = HTTP_MOVED_PERMANENTLY
                /\ q2.lastLocation = "cross")
                => /\ q2.pc = "closed" /\ q2.hops = q.hops
                   /\ wire' = wire
                   /\ q.promise = "pending"
                         => (q2.promise = "resolved"
                             /\ q2.status = HTTP_MOVED_PERMANENTLY)
          /\ (answered /\ q.hops > 0 /\ q2.lastStatus # HTTP_MOVED_PERMANENTLY
                /\ q.promise = "pending")
                => (q2.promise = "resolved" /\ q2.status = q2.lastStatus)
          /\ (~answered /\ q.hops > 0 /\ q.pc = "flight" /\ q2.pc = "closed"
                /\ q.promise = "pending")
                => q2.promise = "rejected"
          /\ q2.sends <= q2.responses + 1

C20_Redirects == [][C20_RedirectStep]_vars

(***************************************************************************)
(* Claims about CSHubClient (SpecSignIn, SpecClient).                      *)
(***************************************************************************)
\* C1: when the sign-in POST of a signIn call is answered with 403, the call
\* resolves with a non-empty message, whatever the body is; when the POST
\* fails with a transport error or gets another non-200 status, the call
\* rejects.
C1_ForbiddenSignInResolves ==
    \A o \in OpIds :
       (ops[o].kind = "signIn" /\ ops[o].pc = "done" /\ ops[o].post # NoOutcome)
          => /\ ops[o].post.status = HTTP_FORBIDDEN
                  => (ops[o].promise = "resolved"
                      /\ ops[o].value \notin {UNDEFINED, ""})
             /\ (ops[o].post.error # NONE
                 \/ ops[o].post.status \notin {HTTP_OK, HTTP_FORBIDDEN})
                  => ops[o].promise = "rejected"

\* C2: without a scheme in the hub address the first request is a HEAD of /
\* over HTTPS, sent before any connection is kept; the connection gets HTTPS
\* when the probe answers with a status other than 301, HTTP when it answers
\* 301 or fails with EPROTO or ECONNREFUSED; any other probe error is the
\* error of the call and no connection is created.
C2_SchemeAutoDetection ==
    \A o \in OpIds :
       LET q == ops[o]
           toHttp == \/ (q.probe.error = NONE /\ q.probe.status = HTTP_MOVED_PERMANENTLY)
                     \/ q.probe.error \in {EPROTO_CODE, ECONNREFUSED_CODE}
           toHttps == q.probe.error = NONE /\ q.probe.status # HTTP_MOVED_PERMANENTLY
       IN /\ q.pc = "gc_probe"
               => /\ client.options.protocol = UNDEFINED
                  /\ q.sent.kind = "probe" /\ q.sent.method = "HEAD"
                  /\ q.sent.protocol = HTTPS_PROTOCOL
                  /\ client.httpConn = 0
          /\ q.probe # NoOutcome
               => /\ toHttp
                       => (q.conn # 0 /\ client.httpConn = q.conn
                           /\ client.conns[q.conn].protocol = HTTP_PROTOCOL)
                  /\ toHttps
                       => (q.conn # 0 /\ client.httpConn = q.conn
                           /\ client.conns[q.conn].protocol = HTTPS_PROTOCOL)
                  /\ (~toHttp /\ ~toHttps)
                       => /\ q.pc = "done" /\ q.promise = "rejected"
                          /\ q.value = q.probe.error
                          /\ client.httpConn = 0
                          /\ \A i \in ConnIds : client.conns[i] = NoConnection

\* The probe failed with EPROTO and the connection was created for HTTP.
C2_Witness ==
    \E o \in OpIds :
       /\ ops[o].probe.error = EPROTO_CODE
       /\ ops[o].conn # 0
       /\ client.conns[ops[o].conn].protocol = HTTP_PROTOCOL

\* C4: every request handed to a connection that holds a bearer token
\* carries the Authorization: Bearer header, and a sign-in on a hub without
\* the session API stores no bearer token.
C4_BearerTokenAttached ==
    \A o \in OpIds :
       /\ (ops[o].sent.kind # NONE /\ ops[o].sent.bearerToken # UNDEFINED)
             => ops[o].sent.headers.authorization = "Bearer"
       /\ (ops[o].kind = "signIn" /\ ~getHubCapabilityInfo(ops[o].compat).openAPI)
             => (ops[o].pc # "bearer_set" /\ ops[o].bearer = UNDEFINED)

\* C7: a signIn call with a cancellation handle that is triggered while the
\* sign-in POST is in flight does not resolve: it settles rejected.
C7_CancelAbortsSignInPost ==
    \A o \in OpIds :
       (ops[o].cancelledInPost /\ ops[o].promise # "pending")
          => ops[o].promise = "rejected"

\* C8: the check_version request is sent at most once per client.
C8_CheckVersionSentOnce == checkVersionCount <= 1

\* C10: a call that got a check_version payload with clientOK false sends no
\* sign-in or resource request and rejects.
C10_IncompatibleClientStops ==
    \A o \in OpIds :
       (ops[o].compat.kind = "info" /\ ops[o].compat.clientOK = "false")
          => /\ ops[o].sent.kind \notin {"signin", "resource"}
             /\ ops[o].pc = "done" => ops[o].promise = "rejected"

\* C12: an anonymous signIn empties the cookie jar and clears the bearer
\* token of the connection before its sign-in request: the POST it sends
\* carries no cookie and finds no token.  Without the session API it sends
\* no POST and resolves with undefined; with it, it sends one POST, and when
\* that succeeds the connection's bearer token becomes the token of the
\* POST's answer.
C12_AnonymousStep ==
    \A o \in OpIds :
       LET q == ops[o]
           q2 == ops'[o]
           modern == q.compat.kind = "info" /\ q.compat.openapi = "true"
       IN (q.kind = "signIn" /\ SignInMethod(client.options) = "anonymous")
          => /\ q2.posts <= 1
             /\ q2.sent.kind = "signin"
                   => (q2.sent.headers.cookie = {} /\ q2.sent.bearerToken = UNDEFINED
                       /\ modern /\ q2.posts = 1)
             /\ (q.pc = "anon_clear" /\ q2.pc # "anon_clear")
                   => /\ client'.conns[q.conn].httpCookies = {}
                      /\ client'.conns[q.conn].bearerToken = UNDEFINED
                      /\ q.posts = 0
                      /\ IF modern THEN q2.pc = "post_send"
                         ELSE (q2.pc = "done" /\ q2.promise = "resolved"
                               /\ q2.value = UNDEFINED /\ q2.posts = 0)
             /\ (q.pc = "bearer_set" /\ q2.pc # "bearer_set")
                   => /\ q2.pc = "done" /\ q2.promise = "resolved" /\ q2.value = UNDEFINED
                      /\ q.post.status = HTTP_OK
                      /\ q.post.body = "json_bearer"
                            => client'.conns[q.conn].bearerToken = "token"

C12_AnonymousSignIn == [][C12_AnonymousStep]_vars

\* An earlier sign-in stored cookies and a token, and the POST of a later
\* anonymous signIn is in flight without them.
C12_Witness ==
    \E o, p \in OpIds :
       /\ SignInMethod(client.options) = "anonymous"
       /\ ops[p].kind = "signIn" /\ ops[p].pc = "done"
       /\ ops[p].post.status = HTTP_OK /\ ops[p].post.body = "json_bearer"
       /\ ops[o].kind = "signIn" /\ ops[o].pc = "post_flight"
       /\ ops[o].sent.headers.cookie = {} /\ ops[o].sent.bearerToken = UNDEFINED

\* C13: a password signIn with a user name and with neither or both of
\* hubpasswd and hubpwfile configured asks for no password and sends no
\* sign-in request; with hubpwfile alone the password it uses is the file
\* content without the white space at its ends.
C13_ExactlyOnePasswordSource ==
    \A o \in OpIds :
       LET q == ops[o]
           opt == client.options
           Trimmed(str, content) ==
               \E i \in 1..(Len(content) + 1), j \in 0..Len(content) :
                  /\ str = SubSeq(content, i, j)
                  /\ \A k \in 1..Len(content) :
                        (k < i \/ k > j) => content[k] \in Whitespace
                  /\ str # << >> => (str[1] \notin Whitespace
                                      /\ str[Len(str)] \notin Whitespace)
       IN (q.kind = "signIn" /\ SignInMethod(opt) = "password" /\ opt.hubuser)
          => /\ (opt.hubpasswd <=> opt.hubpwfile)
                   => (q.posts = 0
                       /\ q.pc \notin {"pw_wait", "post_send", "post_flight", "bearer_set"})
             /\ (opt.hubpwfile /\ ~opt.hubpasswd /\ q.pc \in {"post_send", "post_flight"})
                   => Trimmed(q.password, q.fileContent)

\* C15: when the sign-in POST fails with ECONNRESET, a signIn in certificate
\* mode rejects with the "Certificate authentication failed" error; in
\* password and anonymous mode it rejects with the ECONNRESET error itself.
C15_ConnectionResetInSignIn ==
    \A o \in OpIds :
       (ops[o].kind = "signIn" /\ ops[o].pc = "done"
          /\ ops[o].post.error = ECONNRESET_CODE)
          => /\ ops[o].promise = "rejected"
             /\ IF SignInMethod(client.options) = "certificate"
                THEN /\ ops[o].value = "CSHubRequestError"
                     /\ ops[o].message = "Certificate authentication failed"
                ELSE /\ ops[o].value = ECONNRESET_CODE
                     /\ ops[o].message = ECONNRESET_CODE

\* A signIn in certificate mode was rejected that way.
C15_Witness ==
    \E o \in OpIds :
       /\ SignInMethod(client.options) = "certificate"
       /\ ops[o].kind = "signIn" /\ ops[o].pc = "done"
       /\ ops[o].post.error = ECONNRESET_CODE
       /\ ops[o].message = "Certificate authentication failed"

\* C16: over any interleaving of the operations of one client, the HTTPS
\* HEAD probe of / is sent at most once.
C16_ProbeSentOnce == client.probeCount <= 1

\* C17: one client creates one HTTPClientConnection, and every sign-in,
\* check_version and resource request of its operations goes through it.
C17_OneConnection ==
    /\ Cardinality({i \in ConnIds : client.conns[i] # NoConnection}) <= 1
    /\ \A o \in OpIds :
          ops[o].sent.kind \notin {NONE, "probe"} => ops[o].conn = client.httpConn

\* C11 as stated: a fetchSarifAnalysisDifferenceStream call on a hub without
\* sarifSearch rejects with the "7.1 or later is required" error having
\* issued no network request at all.
C11_ThrowsBeforeAnyRequest ==
    \A o \in OpIds :
       (ops[o].kind = "fetchSarifAnalysisDifferenceStream" /\ ops[o].pc = "done"
          /\ ops[o].compat.kind = "info" /\ ops[o].compat.hubVersionNumber <= 700)
          => /\ ops[o].promise = "rejected" /\ ops[o].value = "hub-too-old"
             /\ ops[o].requests = 0

\* C11 amended: a fetchSarifAnalysisDifferenceStream call on a hub that is
\* not above version 700 never requests /warning_detail_search.sarif and
\* never resolves; the only requests it issues are those that find out the
\* capability set (the HTTPS probe and check_version), and once it has the
\* hub's answer (a payload or a 404) it rejects with the "7.1 or later is
\* required" error.
C11_NoSarifSearchRequest ==
    \A o \in OpIds :
       (ops[o].kind = "fetchSarifAnalysisDifferenceStream"
          /\ (ops[o].compat.kind # "info" \/ ops[o].compat.hubVersionNumber <= 700))
          => /\ ops[o].sent.kind \in {NONE, "probe", "check_version"}
             /\ ops[o].pc \notin {"res_send", "res_flight"}
             /\ ops[o].promise # "resolved"
             /\ ops[o].requests <= 2
             /\ (ops[o].pc = "done" /\ ops[o].compat.kind = "info")
                   => ops[o].value = "hub-too-old"

\* A call on a hub of version 700 was rejected with that error.
C11_Witness ==
    \E o \in OpIds :
       /\ ops[o].kind = "fetchSarifAnalysisDifferenceStream"
       /\ ops[o].pc = "done" /\ ops[o].value = "hub-too-old"
       /\ ops[o].compat.kind = "info" /\ ops[o].compat.hubVersionNumber = 700
       /\ ops[o].requests > 0

\* Required credential material is missing: certificate mode without a
\* key, password mode without a user name or without a password source.
CredentialsMissing(opt) ==
    \/ SignInMethod(opt) = "certificate" /\ opt.hubkey = UNDEFINED
    \/ SignInMethod(opt) = "password" /\ (~opt.hubuser \/ ~(opt.hubpasswd \/ opt.hubpwfile))

ConfigurationErrors == {"no-hubkey", "no-hubuser", "no-password"}

\* C29: a signIn call on a client whose required credential material is
\* missing hands no request to the hub, the sign-in POST included, and
\* settles only by throwing the configuration error.
C29_ConfigurationErrorFirst ==
    \A o \in OpIds :
       (ops[o].kind = "signIn" /\ CredentialsMissing(client.options))
          => /\ ops[o].requests = 0
             /\ ops[o].posts = 0
             /\ ops[o].pc = "done"
                   => (ops[o].promise = "rejected" /\ ops[o].value \in ConfigurationErrors)

\* C37: once a signIn on a hub with the modern API has resolved with
\* undefined, the connection holds a bearer token: a 200 response without
\* a `bearer` field is no successful sign-in.
C37_BearerAfterSignIn ==
    \A o \in OpIds :
       (ops[o].kind = "signIn" /\ ops[o].pc = "done"
          /\ ops[o].promise = "resolved" /\ ops[o].value = UNDEFINED
          /\ getHubCapabilityInfo(ops[o].compat).openAPI)
          => /\ client.httpConn # 0
             /\ client.conns[client.httpConn].bearerToken # UNDEFINED
             /\ ops[o].post.body = "json_bearer"

\* C34: on a client whose hub address carries a scheme, every connection
\* is created with that scheme and no HTTPS probe is sent, whatever the CA
\* file, client key and authentication method.
C34_AddressSchemeKept ==
    client.options.protocol # UNDEFINED
       => /\ client.probeCount = 0
          /\ \A i \in ConnIds :
                client.conns[i] # NoConnection
                   => client.conns[i].protocol = client.options.protocol

(***************************************************************************)
(* Claims about downloadSarifResults (SpecDownload).                       *)
(***************************************************************************)
\* C5: a download whose cancellation was requested while the SARIF request
\* was in flight or the stream was piped to the destination never settles
\* otherwise than rejected with the cancellation error, the destination
\* being ended and the file removed once it has.
C5_CancelledDownloadRejects ==
    (download.cancelledInProgress /\ download.promise # "pending")
       => /\ download.promise = "rejected"
          /\ download.value = "cancelled"
          /\ download.destination \in {"ending", "ended"}
          /\ download.destination = "ended" => download.file # "exists"

C23_Released ==
    /\ download.promise = "rejected"
          => /\ ~download.timer
             /\ download.destination \in {"ending", "ended"}
             /\ download.destination = "ending" => download.file = "exists"
    /\ download.file \in {"unlinking", "removed"}
          => /\ download.promise = "rejected"
             /\ download.destination = "ended"
    /\ download.promise = "resolved"
          => /\ ~download.timer
             /\ download.destination = "finished"
             /\ download.file = "exists"
C9_CapabilityMapping ==
    \A out \in capabilityInfo :
       /\ compatibilityInfo.kind \in {NULL, UNDEFINED}
             => (~out.openAPI /\ ~out.resultLimiting /\ ~out.sarifSearch)
       /\ compatibilityInfo.kind = "info"
             => /\ out.openAPI <=> (compatibilityInfo.openapi = "true")
                /\ out.resultLimiting <=> (compatibilityInfo.hubVersionNumber > 700)
                /\ out.sarifSearch <=> (compatibilityInfo.hubVersionNumber > 700)
       /\ (compatibilityInfo.kind = "info" /\ compatibilityInfo.hubVersionNumber = 710
             /\ compatibilityInfo.openapi = "true")
             => (out.openAPI /\ out.resultLimiting /\ out.sarifSearch)

C9_Witness ==
    \E out \in capabilityInfo :
       /\ compatibilityInfo.kind = "info"
       /\ compatibilityInfo.hubVersionNumber = 710
       /\ compatibilityInfo.openapi = "true"
       /\ out.openAPI /\ out.resultLimiting /\ out.sarifSearch

(***************************************************************************)
(* Claims about the cookie jar (SpecCookies).                              *)
(***************************************************************************)
\* The values of attribute `name` of a Set-Cookie header: what follows
\* the first "=" of its parts with that name, as the sequence of the
\* pieces between "=" signs.
HeaderAttribute(h, name) ==
    { Tail(h.attribs[i]) :
        i \in { i \in 1..Len(h.attribs) :
                  toLowerCase(h.attribs[i][1]) = name /\ Len(h.attribs[i]) > 1 } }

\* The cookie's Max-Age, counted from its receipt, or its Expires time is
\* before `now`.
Elapsed(c, now) ==
    \/ \E v \in HeaderAttribute(c.setcookie, "max-age") :
          \E maxAge \in parseInt(v[1]) :
             c.received + maxAge * MillisecondsPerSecond < now
    \/ \E v \in HeaderAttribute(c.setcookie, "expires") :
          \E expires \in DateTime(v[1]) : expires < now

\* C18: the Cookie header of a request holds no cookie whose Max-Age,
\* counted from when the cookie was received, or whose Expires time has
\* elapsed at the time of the request, the expired cookies having been
\* evicted from the jar before the header is built.
C18_NoExpiredCookieSent ==
    cookieHeader.requests > 0
       => \A c \in cookieHeader.cookies : ~Elapsed(c, cookieHeader.at)

\* The (name, domain, path) of a Set-Cookie header and of the cookie made
\* from it; an attribute that is absent counts as empty.
HeaderTriple(h) ==
    LET value(name) ==
           IF HeaderAttribute(h, name) = {} THEN <<"">>
           ELSE CHOOSE v \in HeaderAttribute(h, name) : TRUE
    IN <<h.name, value("domain"), value("path")>>
CookieTriple(c) == HeaderTriple(c.setcookie)

\* Cookie c is the one made from header h received at time t.
FromHeader(c, h, t) ==
    /\ c.setcookie = h
    /\ c.cookie = <<h.name, h.value>>
    /\ c.received = t

\* C19: the jar never holds two cookies with the same (name, domain, path);
\* after a response, for each (name, domain, path) among its Set-Cookie
\* headers the jar holds the cookie of the last header with that key, and
\* the cookies of the jar with another key are all still there.
C19_ReplacementStep ==
    /\ \A c, d \in httpCookies' : CookieTriple(c) = CookieTriple(d) => c = d
    /\ setCookieCount' # setCookieCount
          => LET hs == cookieHeader'.setcookies
                 last(i) == \A j \in (i+1)..Len(hs) :
                               HeaderTriple(hs[j]) # HeaderTriple(hs[i])
             IN /\ \A i \in 1..Len(hs) :
                      last(i) => \E c \in httpCookies' :
                                    /\ CookieTriple(c) = HeaderTriple(hs[i])
                                    /\ FromHeader(c, hs[i], nowMilliseconds)
                /\ \A c \in httpCookies :
                      (\A i \in 1..Len(hs) : HeaderTriple(hs[i]) # CookieTriple(c))
                         => c \in httpCookies'
C19_CookieReplacement == [][C19_ReplacementStep]_vars

\* The cookie was received with a Max-Age, counted from its receipt, or an
\* Expires time that lies after `now`.
ExpiresLater(c, now) ==
    \/ \E v \in HeaderAttribute(c.setcookie, "max-age") :
          \E maxAge \in parseInt(v[1]) :
             c.received + maxAge * MillisecondsPerSecond > now
    \/ \E v \in HeaderAttribute(c.setcookie, "expires") :
          \E expires \in DateTime(v[1]) : expires > now

\* C33: a request made while the jar holds a cookie whose expiry lies in
\* the future leaves the cookie in the jar and sends it.
C33_PersistenceStep ==
    (setCookieCount' = setCookieCount /\ nowMilliseconds' = nowMilliseconds
       /\ cookieHeader'.setcookies = cookieHeader.setcookies)
       => \A c \in httpCookies :
             ExpiresLater(c, nowMilliseconds)
                => (c \in httpCookies' /\ c \in cookieHeader'.cookies)
C33_SessionPersistence == [][C33_PersistenceStep]_vars

(***************************************************************************)
(* Claims about the socket timeout (SpecTimeout).                          *)
(***************************************************************************)
\* C21: a request is given the request option `timeout` when there is one,
\* otherwise the hub option `timeout` when there is one, otherwise the
\* built-in default; a request that ended on its timeout was destroyed and
\* its promise is rejected with the timeout error.
C21_TimeoutSelection ==
    run.pc \in {"flight", "closed"}
       => /\ run.httpTimeout =
                IF args.requestTimeout # {}
                THEN CHOOSE t \in args.requestTimeout : TRUE
                ELSE IF args.hubTimeout # {}
                     THEN CHOOSE t \in args.hubTimeout : TRUE
                     ELSE HTTP_DEFAULT_TIMEOUT
          /\ (run.pc = "closed" /\ run.httpTimeout # 0
                /\ run.idle = run.httpTimeout)
                => /\ run.destroyed
                   /\ run.promise = "rejected"
                   /\ run.error = "Network connection timed-out."

(***************************************************************************)
(* Claims about record IDs (SpecRecordId).                                 *)
(***************************************************************************)
\* The integer a string of decimal digits denotes.
DigitsOf(s) ==
    [ i \in 1..Len(s) |-> CHOOSE d \in 0..9 : DigitChars[d + 1] = s[i] ]

\* C22: a number above 2^53-1 throws; a string is returned unchanged, also
\* one that denotes a value above 2^53-1; an accepted number is returned as
\* the decimal string of its exact value, which is the integer the hub
\* wrote; nothing but a string is returned.
C22_RecordIdParsing ==
    run.pc = "returned"
       => LET id == args.recordId
              out == run.result
          IN /\ (id.type = "number" /\ Greater(id.number, MAX_CSHUB_RECORD_ID_NUMBER))
                   => out.thrown
             /\ id.type = "string" => (~out.thrown /\ out.value = id.string)
             /\ (id.type = "number" /\ ~Greater(id.number, MAX_CSHUB_RECORD_ID_NUMBER))
                   => /\ ~out.thrown
                      /\ \A i \in 1..Len(out.value) :
                            \E d \in 0..9 : DigitChars[d + 1] = out.value[i]
                      /\ DigitsOf(out.value) = id.number
                      /\ DigitsOf(out.value) = id.text
             /\ ~out.thrown
                   => \A i \in 1..Len(out.value) : out.value[i] \in STRING

\* 2^53+1 as a number throws.
C22_Witness ==
    /\ run.pc = "returned"
    /\ args.recordId.type = "number"
    /\ args.recordId.text = Increment(Increment(MAX_CSHUB_RECORD_ID_NUMBER))
    /\ args.recordId.number = Increment(MAX_CSHUB_RECORD_ID_NUMBER)
    /\ run.result.thrown

(***************************************************************************)
(* Claims about createHubRequestError (SpecHubError).                      *)
(***************************************************************************)
\* The text is an HTML page: after leading whitespace it starts with a
\* doctype declaration, in upper or lower case, or with the html tag.
IsHtmlPage(text) ==
    LET I == { i \in 1..Len(text) : text[i] \notin JsonWhitespace }
    IN I # {} /\ text[CHOOSE i \in I : \A j \in I : i <= j]
                    \in {"<!DOCTYPE", "<!doctype", "<html>"}

\* C24: the error made for a response whose body is an HTML page never has
\* the HTML text as its message; for another body and the JSON error format
\* (a modern hub) the message is the `error` field of the body when the body
\* is JSON with a non-empty one, and otherwise the body text (the status
\* message when the body is empty).
C24_HtmlIsNotTheMessage ==
    run.pc = "returned"
       => LET body == args.resp.body
              e == run.error
          IN /\ IsHtmlPage(body) => (e.message # body /\ e.hubMessage # body)
             /\ (~IsHtmlPage(body) /\ args.errorFormat = "json")
                   => e.message =
                        IF \E m \in JsonError(body).error : m # << >>
                        THEN CHOOSE m \in JsonError(body).error : TRUE
                        ELSE IF body # << >> THEN body
                        ELSE args.resp.statusMessage

(***************************************************************************)
(* Claims about CSHubAddress (SpecAddress).                                *)
(***************************************************************************)
\* The fields a reference parser reads from the address: the scheme in
\* lower case for a URL and none for a bare address, the host, the port as
\* a number when there is one.
ReferenceAddress(s) ==
    LET isUrl == Len(s) >= 2 /\ s[2] = "://"
        rest == IF isUrl THEN SubSeq(s, 3, Len(s)) ELSE s
    IN [ scheme |-> IF isUrl THEN {toLowerCase(s[1])} ELSE {},
         hostname |-> rest[1],
         port |-> IF Len(rest) >= 3 /\ rest[2] = ":" THEN parseInt(rest[3]) ELSE {} ]

\* C25: the scheme, host name (compared without case) and port of a parsed
\* address are those of the reference parser, and what toString() returns
\* parses to the same three fields.
C25_AddressFields ==
    /\ run.pc # "idle"
          => LET ref == ReferenceAddress(args)
                 a == run.hubAddress
             IN /\ a.protocol = ref.scheme
                /\ Len(a.hostname) = 1
                /\ toLowerCase(a.hostname[1]) = toLowerCase(ref.hostname)
                /\ a.port = ref.port
    /\ run.pc \in {"reparsed", "formatted"}
          => /\ run.reparsed.protocol = run.hubAddress.protocol
             /\ run.reparsed.hostname = run.hubAddress.hostname
             /\ run.reparsed.port = run.hubAddress.port

(***************************************************************************)
(* Claims about encodeCSSearchStringLiteral (SpecLiteral).                 *)
(***************************************************************************)
EscapedUnits == {ESC, QUOTE, APOS}

\* The reference unescape: a backslash stands for the code unit after it.
RECURSIVE Unescape(_)
Unescape(t) ==
    IF t = << >> THEN << >>
    ELSE IF Head(t) = ESC /\ Len(t) >= 2
         THEN <<t[2]>> \o Unescape(SubSeq(t, 3, Len(t)))
         ELSE <<Head(t)>> \o Unescape(Tail(t))

\* Read from the left, every backslash is followed by a backslash, a double
\* quote or an apostrophe, and none of the three occurs without a backslash
\* before it.
RECURSIVE WellEscaped(_)
WellEscaped(t) ==
    IF t = << >> THEN TRUE
    ELSE IF Head(t) = ESC
         THEN Len(t) >= 2 /\ t[2] \in EscapedUnits /\ WellEscaped(SubSeq(t, 3, Len(t)))
         ELSE Head(t) \notin EscapedUnits /\ WellEscaped(Tail(t))

\* C26: the literal is the string between two double quotes, with a
\* backslash before every backslash, double quote and apostrophe and
\* nothing else added, and the reference unescape of what is between the
\* quotes is the string.
C26_LiteralRoundTrip ==
    run.pc # "idle"
       => LET t == run.literal
              inner == SubSeq(t, 2, Len(t) - 1)
              escaped == Cardinality({i \in 1..Len(args) : args[i] \in EscapedUnits})
          IN /\ Len(t) >= 2
             /\ t[1] = QUOTE /\ t[Len(t)] = QUOTE
             /\ WellEscaped(inner)
             /\ Len(inner) = Len(args) + escaped
             /\ Unescape(inner) = args

C26_Witness ==
    /\ run.pc = "done"
    /\ Len(args) = MaxLiteralLen
    /\ \A c \in EscapedUnits : \E i \in 1..Len(args) : args[i] = c

(***************************************************************************)
(* Claims about the sign-in form of an older hub (SpecLegacySignIn).       *)
(***************************************************************************)
HexDigits == {"0", "1", "2", "3", "4", "5", "6", "7", "8", "9", "a"}

\* The pieces of t between the occurrences of sep.
RECURSIVE SplitOn(_, _)
SplitOn(t, sep) ==
    IF \E i \in 1..Len(t) : t[i] = sep
    THEN LET i == CHOOSE j \in 1..Len(t) :
                     t[j] = sep /\ \A h \in 1..(j - 1) : t[h] # sep
         IN <<SubSeq(t, 1, i - 1)>> \o SplitOn(SubSeq(t, i + 1, Len(t)), sep)
    ELSE <<t>>

\* Form encoding allows "%" only before two hexadecimal digits, and no
\* space.
RECURSIVE ValidFormText(_)
ValidFormText(t) ==
    IF t = << >> THEN TRUE
    ELSE IF Head(t) = "%"
         THEN Len(t) >= 3 /\ t[2] \in HexDigits /\ t[3] \in HexDigits
              /\ ValidFormText(SubSeq(t, 4, Len(t)))
         ELSE Head(t) # " " /\ ValidFormText(Tail(t))

\* The reference decoding of a name or value: "+" is a space and "%xy" a
\* byte.
RECURSIVE FormDecodeText(_)
FormDecodeText(t) ==
    IF t = << >> THEN << >>
    ELSE IF Head(t) = "+" THEN <<" ">> \o FormDecodeText(Tail(t))
    ELSE IF Head(t) = "%" /\ Len(t) >= 3 /\ t[2] \in HexDigits /\ t[3] \in HexDigits
         THEN <<CASE <<t[2], t[3]>> = <<"2", "2">> -> "\""
                  [] <<t[2], t[3]>> = <<"2", "7">> -> "'"
                  [] <<t[2], t[3]>> = <<"2", "0">> -> " "
                  [] OTHER -> "byte">>
              \o FormDecodeText(SubSeq(t, 4, Len(t)))
         ELSE <<Head(t)>> \o FormDecodeText(Tail(t))

\* The reference decoding of form-encoded data: the fields between "&",
\* each a name and a value around its first "=".
FormDecode(data) ==
    LET items == SplitOn(data, "&")
        field(item) ==
            LET kv == SplitOn(item, "=")
                rest == IF Len(kv) = 1 THEN << >>
                        ELSE SubSeq(item, Len(kv[1]) + 2, Len(item))
            IN [k |-> FormDecodeText(kv[1]), v |-> FormDecodeText(rest)]
    IN [i \in 1..Len(items) |-> field(items[i])]

SignInFields ==
    { [k |-> <<"sif_sign_in">>, v |-> <<"1">>],
      [k |-> <<"sif_log_out_competitor">>, v |-> <<"1">>],
      [k |-> <<"sif_ignore_empty_email">>, v |-> <<"1">>],
      [k |-> <<"response_try_plaintext">>, v |-> <<"1">>] }
    \cup (IF args.isCertificateAuth
          THEN { [k |-> <<"sif_use_tls">>, v |-> <<"1">>] }
          ELSE { [k |-> <<"sif_username">>, v |-> args.hubuser],
                 [k |-> <<"sif_password">>, v |-> args.password] })

\* C27: the sign-in request of an older hub is a POST of
\* /?response_try_plaintext=1 whose body is valid form-encoded data that
\* decodes to exactly the four fixed fields and the user name and password
\* (or sif_use_tls=1), whatever characters the user name and the password
\* hold.
C27_LegacySignInForm ==
    run.pc = "posted"
       => /\ run.method = "POST"
          /\ run.resource = <<"/", "?", "response_try_plaintext", "=", "1">>
          /\ ValidFormText(run.data)
          /\ LET fields == FormDecode(run.data)
             IN /\ {fields[i] : i \in 1..Len(fields)} = SignInFields
                /\ Len(fields) = Cardinality(SignInFields)

(***************************************************************************)
(* Claims about the body of a request (SpecBody).                          *)
(***************************************************************************)
\* The number of bytes of the body in its encoding.
ByteLength(data, encoding) ==
    IF data.type = "object" THEN Len(data.units)
    ELSE LET bytes(c) == CASE encoding = "utf16le" -> 2
                           [] encoding = "latin1" -> 1
                           [] OTHER -> IF c = "a" THEN 1 ELSE 2
             RECURSIVE sum(_)
             sum(s) == IF s = << >> THEN 0 ELSE bytes(Head(s)) + sum(Tail(s))
         IN sum(data.units)

\* C28: every request sent for a call with a body, the first one and the
\* ones after a same-origin redirect, has a Content-Length header equal to
\* the number of bytes of the encoded body, and is not sent in chunks.
C28_ContentLength ==
    args.data.type # "undefined"
       => \A i \in 1..Len(run.sent) :
             LET encoding == IF args.options.dataEncoding = {} THEN "utf8"
                             ELSE CHOOSE e \in args.options.dataEncoding : TRUE
             IN /\ "content-length" \in run.sent[i].headers.names
                /\ run.sent[i].headers.contentLength = {ByteLength(args.data, encoding)}
                /\ \A b \in run.sent[i].written : Len(b) = ByteLength(args.data, encoding)
                /\ ~run.sent[i].chunked

C28_Witness ==
    /\ run.pc = "resolved"
    /\ Len(run.sent) = 2
    /\ args.data.type = "string"
    /\ args.data.units = <<"a", "eacute">>
    /\ args.options.dataEncoding = {}
    /\ run.sent[2].headers.contentLength = {3}

(***************************************************************************)
(* Claims about fetchProjectInfo and fetchAnalysisInfo (SpecFetchJson).    *)
(***************************************************************************)
\* C30: a call with a cancellation handle that was triggered before the
\* call settled, at whatever point (during the capability check, during the
\* list request, while the body is read), settles only by rejecting with
\* the cancellation error.
C30_CancellationError ==
    (args.hasSignal /\ run.cancelledAt # NONE /\ run.pc = "done")
       => (run.promise = "rejected" /\ run.value = "cancelled")

(***************************************************************************)
(* Claims about the input of CSHubAddress (SpecAddressInput).              *)
(***************************************************************************)
\* C31: the constructor throws for an address without a host name and for
\* one whose port is not an integer, so that no object has an empty host
\* name or a NaN port.
C31_AddressInputChecked ==
    LET rest == IF Len(args) >= 2 /\ args[2] = "://" THEN SubSeq(args, 3, Len(args))
                ELSE args
        emptyHost == rest = << >> \/ rest[1] = ":"
        portSegment == { i \in 1..Len(rest) : rest[i] = ":" } # {}
        badPort == portSegment /\ (rest[Len(rest)] = ":" \/ parseInt(rest[Len(rest)]) = {})
    IN /\ (run.pc # "idle" /\ (emptyHost \/ badPort)) => run.pc = "thrown"
       /\ run.pc \in {"parsed", "reparsed"}
             => /\ run.hubAddress.hostname # << >>
                /\ ~run.hubAddress.portIsNaN

(***************************************************************************)
(* Claims about the authentication branch of signIn (SpecSignInBranch).    *)
(***************************************************************************)
\* The sign-in paths a branch can post to.
BranchEndpoints(branch) ==
    CASE branch = "certificate" ->
            {"/session/create-tls-client-certificate/", "/?response_try_plaintext=1"}
      [] branch = "password" ->
            {"/session/create-basic-auth/", "/?response_try_plaintext=1"}
      [] OTHER -> {"/session/create-anonymous/"}

\* C32: signIn takes one branch for every combination of options: a
\* configured method is the branch; without one the branch is certificate
\* when a hub key is configured, else password when a user name is, else
\* anonymous; the sign-in data goes to at most one path, one of the branch,
\* and only the certificate branch presents the client certificate.
C32_OneBranch ==
    run.pc # "idle"
       => LET opt == args.options
          IN /\ run.branch \in {"certificate", "password", "anonymous"}
             /\ opt.auth # UNDEFINED => run.branch = opt.auth
             /\ opt.auth = UNDEFINED
                   => run.branch = (IF opt.hubkey # UNDEFINED THEN "certificate"
                                    ELSE IF opt.hubuser THEN "password"
                                    ELSE "anonymous")
             /\ Cardinality(run.signInUrlPath) <= 1
             /\ run.signInUrlPath \subseteq BranchEndpoints(run.branch)
             /\ run.clientCert => run.branch = "certificate"

C32_Witness ==
    /\ run.pc = "posted"
    /\ args.options.auth = "password"
    /\ args.options.hubkey # UNDEFINED
    /\ run.branch = "password"
    /\ run.signInUrlPath = {"/session/create-basic-auth/"}

(***************************************************************************)
(* Claims about redirect following (SpecRedirectFair).                     *)
(***************************************************************************)
\* C36: when every exchange completes, a call of request() settles, the
\* hub answering with redirects to its own paths or not.
C36_RequestSettles == (run.promise = "pending") ~> (run.promise \in {"resolved", "rejected"})

(***************************************************************************)
(* Claims about the project search request (SpecProjectSearch).            *)
(***************************************************************************)
\* The literal of a term: the term between double quotes, a backslash
\* before each backslash, double quote and apostrophe.
RECURSIVE EscapedTerm(_)
EscapedTerm(s) ==
    IF s = << >> THEN << >>
    ELSE (IF Head(s) \in EscapedUnits THEN <<"\\", Head(s)>> ELSE <<Head(s)>>)
         \o EscapedTerm(Tail(s))

\* The query parameters the hub is meant to receive for a term.
SearchParameters ==
    LET fieldName == IF \E i \in 1..Len(args.searchProject) : args.searchProject[i] = "/"
                     THEN "ptree_path" ELSE "project"
    IN (IF args.openAPI
        THEN { [k |-> <<"sprjgrid">>, v |-> <<"sprjgrid-json">>] }
        ELSE { [k |-> <<"sprjgrid">>, v |-> <<"sprjgrid-list">>],
               [k |-> <<"response_try_plaintext">>, v |-> <<"1">>] })
       \cup (IF args.searchProject = << >> THEN {}
             ELSE { [k |-> <<"query">>,
                     v |-> <<fieldName, "=", "\"">> \o EscapedTerm(args.searchProject)
                              \o <<"\"">>] })

\* C38: the query string of the request sent for a search term decodes, at
\* the hub, to the parameters of the request without a term and the query
\* parameter project=<literal> (ptree_path=<literal> for a term with "/"),
\* whatever characters the term holds.
C38_SearchQuery ==
    run.pc = "sent"
       => /\ Len(run.path) >= 2
          /\ run.path[1] = "/project_search.json" /\ run.path[2] = "?"
          /\ LET fields == FormDecode(SubSeq(run.path, 3, Len(run.path)))
             IN /\ {fields[i] : i \in 1..Len(fields)} = SearchParameters
                /\ Len(fields) = Cardinality(SearchParameters)

\* The call has not got the capabilities of the hub yet.
BeforeCapabilities(q) ==
    \/ q.pc \in {"cv_send", "cv_flight"}
    \/ q.pc \in {"gc_load", "gc_probe"} /\ q.ret = "cv_send"

C39_PasswordStep ==
    \A o \in OpIds :
       LET q == ops[o]
           q2 == ops'[o]
           password == SignInMethod(client.options) = "password"
       IN q.kind = "signIn" =>
             /\ q2.passwordCalls <= 1
             /\ q2.passwordCalls > q.passwordCalls
                   => /\ password
                      /\ q.pc = "cap_ready"
                      /\ client.hubVersionCompatibilityInfo # UndefinedInfo
                      /\ q.posts = 0
             /\ (q2.posts > q.posts /\ password) => q.passwordCalls = 1
             /\ (BeforeCapabilities(q) /\ q2.pc = "done")
                   => /\ q2.promise = "rejected"
                      /\ q2.passwordCalls = 0
                      /\ q2.posts = 0

\* C39: a signIn in password mode invokes the password source (the
\* hubpasswd callback or the read of hubpwfile) at most once, after the
\* capabilities of the hub are known and before the sign-in POST is sent;
\* a signIn whose capability negotiation throws invokes no password source
\* and sends no POST.
C39_PasswordSourceOnce == [][C39_PasswordStep]_vars

C39_Witness ==
    \E o \in OpIds :
       /\ ops[o].kind = "signIn"
       /\ SignInMethod(client.options) = "password"
       /\ ops[o].passwordCalls = 1
       /\ ops[o].posts = 1
       /\ ops[o].pc = "done"

\* C40: assert.strictEqual(httpOptions.keypasswd, undefined) holds whenever
\* getHttpClientConnection probes for the scheme, and a connection that has
\* a passphrase callback has the scheme HTTPS, chosen while no probe was
\* ever sent.
C40_NoPassphraseAtProbe ==
    /\ \A o \in OpIds :
          ops[o].pc = "gc_probe" => ~Keypasswd(client.options)
    /\ \A i \in ConnIds :
          client.conns[i].requestPassphrase
             => /\ client.conns[i].protocol = HTTPS_PROTOCOL
                /\ client.probeCount = 0

C40_Witness ==
    /\ client.options.protocol = UNDEFINED
    /\ client.httpConn # 0
    /\ client.conns[client.httpConn].requestPassphrase
    /\ \E o \in OpIds : ops[o].kind = "signIn" /\ ops[o].pc = "done"

=============================================================================
